---- MODULE Spec2Model ----
(***************************************************************************)
(* Twitch-Channel-Points-Miner-v2: the GQL integration layer.              *)
(*                                                                         *)
(*   utils/AttemptStrategy.py   the bounded retry engine (make_attempts)   *)
(*   classes/gql/Errors.py      the GQLError hierarchy and recoverable()   *)
(*   classes/gql/Integration.py the executor (post_gql_request_single /    *)
(*                              _batch), the operation wrappers, the       *)
(*                              pagination and the batching drivers        *)
(*                                                                         *)
(* Python objects that can be aliased (the request templates of            *)
(* GQLOperations and the dicts a wrapper builds from them) live in `heap`, *)
(* so that an in-place write through an alias is visible in the model.     *)
(***************************************************************************)
EXTENDS Integers, Sequences, FiniteSets, TLC

\* ------------------------------------------------------------------ bounds
MaxAttemptsBound == 3
MaxInterval == 2
MaxItems == 2
MaxPages == 3
MaxEdges == 2
MaxFullChunks == 2
MaxErrors == 2

Threads == {1, 2}

VARIABLES
    maxAttempts,    \* AttemptStrategy.attempts (self.attempts)
    interval,       \* AttemptStrategy.attempt_interval_seconds
    pc,             \* per thread: where the thread is
    attempts,       \* per thread: make_attempts' local `attempts`
    errors,         \* per thread: make_attempts' local `errors`
    outcome,        \* per thread: what make_attempts returned
    events,         \* per thread: the attempt() calls and sleeps of the run, in order
    heap,           \* the dict objects: GQLOperations' templates and the wrappers' dicts
    op,             \* per thread: the operation wrapper the thread is in
    request,        \* per thread: request_json of the executor call in progress
    opname,         \* per thread: operation_name of the executor call in progress
    local,          \* per thread: the wrapper's own local variables
    ret,            \* per thread: what the wrapper returned or raised
    sent,           \* per thread: the bodies handed to post_request in the current run
    received,       \* per thread: what post_request did with each of them
    log,            \* per thread: the records logger.debug wrote in the current run
    calls,          \* per thread: the executor calls the wrapper made, as (request, end)
    gen,            \* per thread: the tokens token_hex produced during the call
    cmp             \* the operands and the result of the last == of a RetryError

strategy_vars == <<maxAttempts, interval>>
run_vars == <<pc, attempts, errors, outcome, events>>
gql_vars == <<heap, op, request, opname, local, ret, sent, received, log, calls, gen>>
vars == <<maxAttempts, interval, pc, attempts, errors, outcome, events,
          heap, op, request, opname, local, ret, sent, received, log, calls, gen, cmp>>

\* ----------------------------------------------------------------- values
\* A Python value held in a dict: a scalar, or a reference to a dict object.
SV(s) == [tag |-> "str", s |-> s, n |-> 0]
IV(n) == [tag |-> "int", s |-> "", n |-> n]
BV(b) == [tag |-> "bool", s |-> "", n |-> IF b THEN 1 ELSE 0]
RV(r) == [tag |-> "ref", s |-> "", n |-> r]
\* the cursor string of the j-th edge the server serves
CursorV(j) == [tag |-> "str", s |-> "cursor", n |-> j]

\* ------------------------------------------------------------- exceptions
\* An exception value: its class, and the fields the classes of Errors.py
\* carry.  `errors` is the list of per-item Error objects of a
\* GQLResponseErrors, each reduced to its `recoverable` attribute.
Exc(cls, operation_name, items) ==
    [cls |-> cls, operation_name |-> operation_name, errors |-> items]

RequestExceptionClasses == {"ConnectionError", "Timeout", "HTTPError"}
GQLErrorClasses == {"GQLResponseErrors", "InvalidJsonShapeException", "RetryError"}
OtherExceptionClasses == {"KeyError"}

IsRequestException(e) == e.cls \in RequestExceptionClasses
IsGQLError(e) == e.cls \in GQLErrorClasses

RECURSIVE SeqsUpTo(_, _)
SeqsUpTo(S, n) ==
    IF n = 0 THEN {<<>>}
    ELSE LET shorter == SeqsUpTo(S, n - 1)
         IN  shorter \cup {Append(s, x) : s \in shorter, x \in S}

ItemLists == SeqsUpTo({[recoverable |-> TRUE], [recoverable |-> FALSE]}, MaxItems)

Exceptions ==
    {Exc(c, "", <<>>) : c \in RequestExceptionClasses \cup OtherExceptionClasses}
    \cup {Exc("GQLResponseErrors", "op", items) : items \in ItemLists}
    \cup {Exc("InvalidJsonShapeException", "", <<>>), Exc("RetryError", "op", <<>>)}

\* GQLError.recoverable and its overrides.
recoverable_shape(e) ==
    CASE e.cls = "GQLResponseErrors" ->
            \A i \in 1..Len(e.errors) : e.errors[i].recoverable
      [] e.cls = "InvalidJsonShapeException" -> TRUE
      [] OTHER -> FALSE
recoverable_any(e) ==
    CASE e.cls = "GQLResponseErrors" ->
            \E i \in 1..Len(e.errors) : e.errors[i].recoverable
      [] e.cls = "InvalidJsonShapeException" -> FALSE
      [] OTHER -> FALSE
recoverable(e) ==
    CASE e.cls = "GQLResponseErrors" ->
            \A i \in 1..Len(e.errors) : e.errors[i].recoverable
      [] e.cls = "InvalidJsonShapeException" -> FALSE
      [] OTHER -> FALSE

is_recoverable_error_gql_only(e) == IsGQLError(e) /\ recoverable(e)
is_recoverable_error(e) ==
    IF IsRequestException(e) THEN TRUE
    ELSE IF IsGQLError(e) THEN recoverable(e)
    ELSE FALSE

\* str | None: traceback.format_exc() is a text that names the exception.
None == [present |-> FALSE, text |-> ""]
format_exc(e) == [present |-> TRUE, text |-> e.cls]

error_context_always(e) == format_exc(e)
error_context(e) ==
    IF ~IsGQLError(e) THEN format_exc(e) ELSE None

ExceptionContext(e, stack_trace) == [exception |-> e, stack_trace |-> stack_trace]

\* ---------------------------------------------------------------- results
\* A typed value: the response type, its content (for a list its items).
DataRec(id, edges, has_next_page) == [id |-> id, edges |-> edges, has_next_page |-> has_next_page]
NoData == DataRec(SV(""), <<>>, FALSE)
Typed(name, data, list) == [typed |-> name, data |-> data, list |-> list]
NoValue == Typed("none", NoData, <<>>)
SuccessResult(errs, result) == [kind |-> "SuccessResult", errors |-> errs, result |-> result]
ErrorResult(errs) == [kind |-> "ErrorResult", errors |-> errs, result |-> NoValue]
NoOutcome == [kind |-> "none", errors |-> <<>>, result |-> NoValue]

\* SuccessResult.attempts / ErrorResult.attempts
result_attempts_errors(r) == Len(r.errors)
result_attempts(r) ==
    IF r.kind = "SuccessResult" THEN Len(r.errors) + 1 ELSE Len(r.errors)

\* What one call of attempt() followed by validate(result) does: the value
\* attempt returned, or the exception attempt or validate raised.
Returned(v) == [raised |-> FALSE, value |-> v, exception |-> Exc("", "", <<>>)]
Raised(e) == [raised |-> TRUE, value |-> NoValue, exception |-> e]

\* ------------------------------------------------------------ run history
\* What the run did, in order: every call of attempt() (with what it and
\* validate did) and every time.sleep.
AttemptEvent(a, v, r) ==
    [ev |-> "attempt", raised |-> r.raised, value |-> r.value,
     exception |-> r.exception, seconds |-> 0,
     attempt_raised |-> a.raised, validate_raised |-> ~a.raised /\ v.raised]
SleepEvent(s) ==
    [ev |-> "sleep", raised |-> FALSE, value |-> NoValue,
     exception |-> Exc("", "", <<>>), seconds |-> s,
     attempt_raised |-> FALSE, validate_raised |-> FALSE]

\* ---------------------------------------------------------- make_attempts
\* `while attempts < self.attempts`
loop_test_after_first(n) == n = 0 \/ n < maxAttempts
loop_test(n) == n < maxAttempts

\* errors.append(ExceptionContext(e, exception_context(e)))
record_error_prepend(errs, e) == <<ExceptionContext(e, error_context(e))>> \o errs
record_error(errs, e) == Append(errs, ExceptionContext(e, error_context(e)))

\* `if not retryable(e): break`
break_on_error_never(e) == FALSE
break_on_error(e) == ~is_recoverable_error(e)

\* `if attempts >= self.attempts: break`, the early break that avoids the sleep
break_early_never(n) == FALSE
break_early(n) == n >= maxAttempts

\* `result = attempt(); validate(result)` inside the try: what the two do
\* together
attempt_unvalidated(a, v) == a
attempt_and_validate(a, v) == IF a.raised THEN a ELSE IF v.raised THEN v ELSE a

\* One iteration of `while attempts < self.attempts`, from the loop test to
\* the return, the break or the sleep.  `a` is what attempt() does this
\* time and `v` what validate does with the value when attempt returns.
make_attempts_step(t, a, v) ==
    /\ pc[t] = "attempt"
    /\ IF ~loop_test(attempts[t])
       THEN \* the loop ends: return ErrorResult(errors)
            /\ outcome' = [outcome EXCEPT ![t] = ErrorResult(errors[t])]
            /\ pc' = [pc EXCEPT ![t] = "returned"]
            /\ UNCHANGED <<attempts, errors, events>>
       ELSE LET n == attempts[t] + 1
                r == attempt_and_validate(a, v)
                errs == record_error(errors[t], r.exception)
            IN  /\ attempts' = [attempts EXCEPT ![t] = n]
                /\ events' = [events EXCEPT ![t] = Append(@, AttemptEvent(a, v, r))]
                /\ IF ~r.raised
                   THEN /\ outcome' = [outcome EXCEPT ![t] = SuccessResult(errors[t], r.value)]
                        /\ pc' = [pc EXCEPT ![t] = "returned"]
                        /\ UNCHANGED errors
                   ELSE /\ errors' = [errors EXCEPT ![t] = errs]
                        /\ IF break_on_error(r.exception) \/ break_early(n)
                           THEN /\ outcome' = [outcome EXCEPT ![t] = ErrorResult(errs)]
                                /\ pc' = [pc EXCEPT ![t] = "returned"]
                           ELSE /\ pc' = [pc EXCEPT ![t] = "sleep"]
                                /\ UNCHANGED outcome
    /\ UNCHANGED <<strategy_vars, cmp>>

\* time.sleep(self.attempt_interval_seconds), then back to the loop test.
Sleep(t) ==
    /\ pc[t] = "sleep"
    /\ events' = [events EXCEPT ![t] = Append(@, SleepEvent(interval))]
    /\ pc' = [pc EXCEPT ![t] = "attempt"]
    /\ UNCHANGED <<strategy_vars, cmp, attempts, errors, outcome, gql_vars>>

\* ------------------------------------------------------------------- heap

EmptyDict == [k \in {} |-> SV("")]
SetItem(d, k, v) == (k :> v) @@ d

\* a new dict object at reference r; obj[k] = v
New(h, r, d) == (r :> d) @@ h
Store(h, r, k, v) == [h EXCEPT ![r] = SetItem(@, k, v)]

\* copy.deepcopy: a new dict at `at`, its nested dicts copied after it
RECURSIVE deepcopy_items(_, _, _, _)
deepcopy_items(h, obj, keys, next) ==
    IF keys = {} THEN [h |-> h, next |-> next]
    ELSE LET k == CHOOSE x \in keys : TRUE
             v == h[obj][k]
         IN  IF v.tag = "ref"
             THEN LET shallow == New(h, next, h[v.n])
                      c == deepcopy_items(shallow, next, DOMAIN h[v.n], next + 1)
                  IN  deepcopy_items(Store(c.h, obj, k, RV(next)), obj, keys \ {k}, c.next)
             ELSE deepcopy_items(h, obj, keys \ {k}, next)

\* (copy.copy would be a new dict with the same items, nested dicts shared)
copy_copy(h, r, at) == [h |-> New(h, at, h[r]), next |-> at + 1]
deepcopy(h, r, at) == deepcopy_items(New(h, at, h[r]), at, DOMAIN h[r], at + 1)

\* The JSON a dict object serialises to: nested dicts by value.
RECURSIVE Json(_, _)
Json(h, r) ==
    [k \in DOMAIN h[r] |->
        IF h[r][k].tag = "ref"
        THEN [tag |-> "dict", s |-> "", n |-> 0, d |-> Json(h, h[r][k].n)]
        ELSE h[r][k]]

\* -------------------------------------------------------------- templates
\* GQLOperations: one template per operation, {operationName, variables,
\* extensions}; the variables skeleton is a dict of its own.
OperationNames ==
    << "VideoPlayerStreamInfoOverlayChannel", "GetIDFromLogin", "ChannelFollows",
       "JoinRaid", "PlaybackAccessToken", "ChannelPointsContext", "MakePrediction",
       "ClaimCommunityPoints", "CommunityMomentCallout_Claim",
       "DropsHighlightService_AvailableDrops", "Inventory", "ViewerDropsDashboard",
       "DropCampaignDetails", "DropsPage_ClaimDropRewards", "UserPointsContribution",
       "ContributeCommunityPointsCommunityGoal" >>

TemplateIndex(name) == CHOOSE i \in 1..Len(OperationNames) : OperationNames[i] = name
Template(name) == 2 * TemplateIndex(name) - 1
TemplateRefs == 1..(2 * Len(OperationNames))

Skeleton(name) ==
    CASE name = "GetIDFromLogin" -> SetItem(EmptyDict, "login", SV(""))
      [] name = "ChannelFollows" ->
            SetItem(SetItem(EmptyDict, "limit", IV(100)), "order", SV("ASC"))
      [] name \in {"Inventory", "ViewerDropsDashboard"} ->
            SetItem(EmptyDict, "fetchRewardCampaigns", BV(TRUE))
      [] OTHER -> EmptyDict

Templates ==
    [r \in TemplateRefs |->
        LET name == OperationNames[(r + 1) \div 2]
        IN  IF r % 2 = 1
            THEN SetItem(SetItem(SetItem(EmptyDict,
                    "operationName", SV(name)),
                    "variables", RV(r + 1)),
                    "extensions", SV("persistedQuery"))
            ELSE Skeleton(name)]

\* GQLOperations.X["operationName"]
operationName(h, name) == h[Template(name)]["operationName"].s

\* the dict objects a thread's call creates
Base(t) == 100 * t
Scratch(t) == (Base(t) + 1)..(Base(t) + 99)
json_data_shared(t) == Base(1) + 1
json_data(t) == Base(t) + 1

\* json_data["variables"] = {...}
set_variables_and_extensions(c, json, d) ==
    [h |-> Store(Store(New(c.h, c.next, d), json, "variables", RV(c.next)),
                 json, "extensions", RV(c.next)),
     next |-> c.next + 1]
set_variables(c, json, d) ==
    [h |-> Store(New(c.h, c.next, d), json, "variables", RV(c.next)), next |-> c.next + 1]

\* json_data["variables"] = {"input": {...}}
set_input(c, json, d) ==
    set_variables([h |-> New(c.h, c.next, d), next |-> c.next + 1], json,
                  SetItem(EmptyDict, "input", RV(c.next)))

\* ------------------------------------------------- transport and parsing
\* What post_request does with one request: it raises, or it returns a
\* Response with a status and a JSON body.
PyNone == Typed("None", NoData, <<>>)
JDict(kind, data, items) == [shape |-> "dict", kind |-> kind, data |-> data, items |-> items]
JList(items) == [shape |-> "list", kind |-> "", data |-> NoData, items |-> items]

TransportRaises(cls) == [raises |-> TRUE, exception |-> Exc(cls, "", <<>>), ok |-> FALSE, body |-> JList(<<>>)]
Response(ok, body) == [raises |-> FALSE, exception |-> Exc("", "", <<>>), ok |-> ok, body |-> body]

\* Parser.parse_*: the typed response of a well-formed body; a body that
\* carries errors raises GQLResponseErrors, one of another shape raises
\* InvalidJsonShapeException, and a fault of the parser is any Exception.
parse(operation_name, json) ==
    IF json.shape # "dict" THEN Raised(Exc("InvalidJsonShapeException", "", <<>>))
    ELSE CASE json.kind = "data" -> Returned(Typed(operation_name, json.data, <<>>))
           [] json.kind = "null" -> Returned(PyNone)
           [] json.kind = "errors" -> Raised(Exc("GQLResponseErrors", operation_name, json.items))
           [] json.kind = "malformed" -> Raised(Exc("InvalidJsonShapeException", "", <<>>))
           [] OTHER -> Raised(Exc("KeyError", "", <<>>))

\* [f(item) for item in value] / list(map(f, value)): the results in order,
\* or the exception of the first item on which f raises.  `rs` holds what
\* f does on each item.
first_raised(rs) ==
    LET bad == {i \in 1..Len(rs) : rs[i].raised}
    IN  IF bad = {} THEN 0 ELSE CHOOSE i \in bad : \A j \in bad : i <= j

collect(rs) ==
    IF first_raised(rs) # 0 THEN rs[first_raised(rs)]
    ELSE Returned(Typed("list", NoData, [i \in 1..Len(rs) |-> rs[i].value]))

parse_list(operation_name, value) ==
    IF value.shape = "list"
    THEN collect([i \in 1..Len(value.items) |-> parse(operation_name, value.items[i])])
    ELSE Raised(Exc("InvalidJsonShapeException", "", <<>>))

\* logger.debug(f"Data: {request_json}, Status code: ..., Content: ..."),
\* which the attempt reaches when post_request has returned a response
LogRecord(data, tr) == [data |-> data, ok |-> tr.ok, content |-> tr.body]
log_debug(records, data, tr) ==
    IF tr.raises THEN records ELSE Append(records, LogRecord(data, tr))

\* GQL.__post_gql_request, for a request that is a list (`batch`) or a
\* dict, with the parse callback the two executors hand it.
post_gql_request(batch, operation_name, tr) ==
    IF tr.raises THEN Raised(tr.exception)
    ELSE IF ~tr.ok THEN Raised(Exc("HTTPError", "", <<>>))
    ELSE IF batch
         THEN IF tr.body.shape = "list"
              THEN collect([i \in 1..Len(tr.body.items) |->
                                parse_list(operation_name, tr.body.items[i])])
              ELSE Raised(Exc("InvalidJsonShapeException", "", <<>>))
         ELSE parse(operation_name, tr.body)

\* validate_response: returns
validate_response(value) == Returned(NoValue)

\* the request body post_request is given: request_json, serialised
request_json_regenerated(h, req, fresh) ==
    [i \in 1..Len(req.refs) |->
        LET j == Json(h, req.refs[i])
        IN  IF "variables" \in DOMAIN j /\ j["variables"].tag = "dict"
               /\ "input" \in DOMAIN j["variables"].d
               /\ j["variables"].d["input"].tag = "dict"
               /\ "transactionID" \in DOMAIN j["variables"].d["input"].d
            THEN [j EXCEPT !["variables"].d["input"].d["transactionID"] = SV(fresh)]
            ELSE j]
request_json(h, req, fresh) == [i \in 1..Len(req.refs) |-> Json(h, req.refs[i])]

\* ------------------------------------------------------------ the executor
NoRequest == [batch |-> FALSE, refs |-> <<>>]
NoLocal == [args |-> <<>>, has_next |-> FALSE, last_cursor |-> SV(""), follows |-> <<>>,
            campaign_ids |-> <<>>, chunk |-> 0, result |-> <<>>]
NoRet == [kind |-> "none", value |-> NoValue, exception |-> Exc("", "", <<>>)]
RetryError(operation_name, errs) == [cls |-> "RetryError", operation_name |-> operation_name, errors |-> errs]

\* GQL.__handle_result
handle_result_last_error(result, operation_name) ==
    IF result.kind = "ErrorResult"
    THEN [kind |-> "raise", value |-> NoValue,
          exception |-> RetryError(operation_name,
                                   IF result.errors = <<>> THEN <<>>
                                   ELSE <<result.errors[Len(result.errors)]>>)]
    ELSE [kind |-> "return", value |-> result.result, exception |-> Exc("", "", <<>>)]
handle_result_none(result, operation_name) ==
    IF result.kind = "ErrorResult"
    THEN [kind |-> "return", value |-> PyNone, exception |-> Exc("", "", <<>>)]
    ELSE [kind |-> "return", value |-> result.result, exception |-> Exc("", "", <<>>)]
handle_result(result, operation_name) ==
    IF result.kind = "ErrorResult"
    THEN [kind |-> "raise", value |-> NoValue,
          exception |-> RetryError(operation_name, result.errors)]
    ELSE [kind |-> "return", value |-> result.result, exception |-> Exc("", "", <<>>)]

\* the dict objects of a thread's call are gone when they are dropped
Free(h, t) == [r \in DOMAIN h \ Scratch(t) |-> h[r]]

\* post_gql_request_single / post_gql_request_batch up to the first test
\* of make_attempts' loop: attempts = 0, errors = []
CallRecord(h, req) ==
    [batch |-> req.batch, body |-> request_json(h, req, ""), ended |-> "", value |-> NoValue]
end_call(cs, r) ==
    [cs EXCEPT ![Len(cs)].ended = r.kind, ![Len(cs)].value = r.value]
ReturnValue(v) == [kind |-> "return", value |-> v, exception |-> Exc("", "", <<>>)]

\* (a run that went on counting where the run before it stopped)
enter_make_attempts_carry(t, operation_name, req, h, prior) ==
    /\ pc' = [pc EXCEPT ![t] = "attempt"]
    /\ calls' = [calls EXCEPT ![t] = Append(prior, CallRecord(h, req))]
    /\ attempts' = [attempts EXCEPT ![t] = IF @ >= maxAttempts /\ @ > 0 THEN @ - 1 ELSE @]
    /\ errors' = [errors EXCEPT ![t] = <<>>]
    /\ outcome' = [outcome EXCEPT ![t] = NoOutcome]
    /\ events' = [events EXCEPT ![t] = <<>>]
    /\ sent' = [sent EXCEPT ![t] = <<>>]
    /\ received' = [received EXCEPT ![t] = <<>>]
    /\ log' = [log EXCEPT ![t] = <<>>]
    /\ request' = [request EXCEPT ![t] = req]
    /\ opname' = [opname EXCEPT ![t] = operation_name]

\* post_gql_request_single / post_gql_request_batch: a new run of
\* make_attempts for the request
enter_make_attempts(t, operation_name, req, h, prior) ==
    /\ pc' = [pc EXCEPT ![t] = "attempt"]
    /\ calls' = [calls EXCEPT ![t] = Append(prior, CallRecord(h, req))]
    /\ attempts' = [attempts EXCEPT ![t] = 0]
    /\ errors' = [errors EXCEPT ![t] = <<>>]
    /\ outcome' = [outcome EXCEPT ![t] = NoOutcome]
    /\ events' = [events EXCEPT ![t] = <<>>]
    /\ sent' = [sent EXCEPT ![t] = <<>>]
    /\ received' = [received EXCEPT ![t] = <<>>]
    /\ log' = [log EXCEPT ![t] = <<>>]
    /\ request' = [request EXCEPT ![t] = req]
    /\ opname' = [opname EXCEPT ![t] = operation_name]

\* a wrapper, from its first line to its executor call
call_single(t, wrapper, args, h, operation_name, json, tokens) ==
    /\ pc[t] = "idle"
    /\ heap' = h
    /\ op' = [op EXCEPT ![t] = wrapper]
    /\ gen' = [gen EXCEPT ![t] = tokens]
    /\ ret' = [ret EXCEPT ![t] = NoRet]
    /\ enter_make_attempts(t, operation_name, [batch |-> FALSE, refs |-> <<json>>], h, <<>>)
    /\ local' = [local EXCEPT ![t] = [NoLocal EXCEPT !.args = args]]
    /\ UNCHANGED <<strategy_vars, cmp>>

\* --------------------------------------------------- the operation wrappers
Strs == {"a", "b"}
Points == {10}
Tokens == {"t1", "t2"}

video_player_stream_info_overlay_channel(t) ==
    \E streamer_username \in Strs :
        LET name == "VideoPlayerStreamInfoOverlayChannel"
            c == deepcopy(heap, Template(name), json_data(t))
            b == set_variables(c, json_data(t),
                     SetItem(EmptyDict, "channel", SV(streamer_username)))
        IN  call_single(t, "video_player_stream_info_overlay_channel", <<SV(streamer_username)>>, b.h,
                        operationName(heap, name), json_data(t), <<>>)

get_id_from_login(t) ==
    \E streamer_username \in Strs :
        LET name == "GetIDFromLogin"
            c == deepcopy(heap, Template(name), json_data(t))
            variables == c.h[json_data(t)]["variables"].n
            h == Store(c.h, variables, "login", SV(streamer_username))
        IN  call_single(t, "get_id_from_login", <<SV(streamer_username)>>, h,
                        operationName(heap, name), json_data(t), <<>>)

join_raid(t) ==
    \E raid_id \in Strs :
        LET name == "JoinRaid"
            c == deepcopy(heap, Template(name), json_data(t))
            b == set_input(c, json_data(t), SetItem(EmptyDict, "raidID", SV(raid_id)))
        IN  call_single(t, "join_raid", <<SV(raid_id)>>, b.h, operationName(heap, name), json_data(t), <<>>)

get_playback_access_token(t) ==
    \E username \in Strs :
        LET name == "PlaybackAccessToken"
            c == deepcopy(heap, Template(name), json_data(t))
            b == set_variables(c, json_data(t),
                     SetItem(SetItem(SetItem(SetItem(SetItem(EmptyDict,
                         "login", SV(username)),
                         "isLive", BV(TRUE)),
                         "isVod", BV(FALSE)),
                         "vodID", SV("")),
                         "playerType", SV("site")))
        IN  call_single(t, "get_playback_access_token", <<SV(username)>>, b.h,
                        operationName(heap, name), json_data(t), <<>>)

get_channel_points_context(t) ==
    \E username \in Strs :
        LET name == "ChannelPointsContext"
            c == deepcopy(heap, Template(name), json_data(t))
            b == set_variables(c, json_data(t),
                     SetItem(EmptyDict, "channelLogin", SV(username)))
        IN  call_single(t, "get_channel_points_context", <<SV(username)>>, b.h,
                        operationName(heap, name), json_data(t), <<>>)

make_prediction(t) ==
    \E event_id \in Strs, outcome_id \in Strs, points \in Points, token_hex \in Tokens :
        LET name == "MakePrediction"
            c == deepcopy(heap, Template(name), json_data(t))
            b == set_input(c, json_data(t),
                     SetItem(SetItem(SetItem(SetItem(EmptyDict,
                         "eventID", SV(event_id)),
                         "outcomeID", SV(outcome_id)),
                         "points", IV(points)),
                         "transactionID", SV(token_hex)))
        IN  call_single(t, "make_prediction", <<SV(event_id), SV(outcome_id), IV(points)>>, b.h,
                        operationName(heap, name), json_data(t), <<token_hex>>)

claim_community_points(t) ==
    \E channel_id \in Strs, claim_id \in Strs :
        LET name == "ClaimCommunityPoints"
            c == deepcopy(heap, Template(name), json_data(t))
            b == set_input(c, json_data(t),
                     SetItem(SetItem(EmptyDict,
                         "channelID", SV(channel_id)),
                         "claimID", SV(claim_id)))
        IN  call_single(t, "claim_community_points", <<SV(channel_id), SV(claim_id)>>, b.h,
                        operationName(heap, name), json_data(t), <<>>)

claim_moment(t) ==
    \E moment_id \in Strs :
        LET name == "CommunityMomentCallout_Claim"
            c == deepcopy(heap, Template(name), json_data(t))
            b == set_input(c, json_data(t), SetItem(EmptyDict, "momentID", SV(moment_id)))
        IN  call_single(t, "claim_moment", <<SV(moment_id)>>, b.h, operationName(heap, name), json_data(t), <<>>)

get_available_drops(t) ==
    \E channel_id \in Strs :
        LET name == "DropsHighlightService_AvailableDrops"
            c == deepcopy(heap, Template(name), json_data(t))
            b == set_variables(c, json_data(t),
                     SetItem(EmptyDict, "channelID", SV(channel_id)))
        IN  call_single(t, "get_available_drops", <<SV(channel_id)>>, b.h,
                        operationName(heap, name), json_data(t), <<>>)

\* the template itself is the request: no copy is made
get_inventory(t) ==
    call_single(t, "get_inventory", <<>>, heap, operationName(heap, "Inventory"),
                Template("Inventory"), <<>>)

get_viewer_drops_dashboard(t) ==
    call_single(t, "get_viewer_drops_dashboard", <<>>, heap,
                operationName(heap, "ViewerDropsDashboard"),
                Template("ViewerDropsDashboard"), <<>>)

claim_drop_rewards(t) ==
    \E drop_instance_id \in Strs :
        LET name == "DropsPage_ClaimDropRewards"
            c == deepcopy(heap, Template(name), json_data(t))
            b == set_input(c, json_data(t),
                     SetItem(EmptyDict, "dropInstanceID", SV(drop_instance_id)))
        IN  call_single(t, "claim_drop_rewards", <<SV(drop_instance_id)>>, b.h,
                        operationName(heap, name), json_data(t), <<>>)

get_user_points_contribution(t) ==
    \E username \in Strs :
        LET name == "UserPointsContribution"
            c == deepcopy(heap, Template(name), json_data(t))
            b == set_variables(c, json_data(t),
                     SetItem(EmptyDict, "channelLogin", SV(username)))
        IN  call_single(t, "get_user_points_contribution", <<SV(username)>>, b.h,
                        operationName(heap, name), json_data(t), <<>>)

contribute_to_community_goal(t) ==
    \E channel_id \in Strs, goal_id \in Strs, amount \in Points, token_hex \in Tokens :
        LET name == "ContributeCommunityPointsCommunityGoal"
            c == deepcopy(heap, Template(name), json_data(t))
            b == set_input(c, json_data(t),
                     SetItem(SetItem(SetItem(SetItem(EmptyDict,
                         "amount", IV(amount)),
                         "channelID", SV(channel_id)),
                         "goalID", SV(goal_id)),
                         "transactionID", SV(token_hex)))
        IN  call_single(t, "contribute_to_community_goal", <<IV(amount), SV(channel_id), SV(goal_id)>>, b.h,
                        operationName(heap, name), json_data(t), <<token_hex>>)

\* wrappers that end with `return self.post_gql_request_single(...)`; the
\* others drop the value and return None
ReturnsValue(wrapper) ==
    wrapper \notin {"join_raid", "claim_community_points", "claim_moment"}

SimpleWrappers ==
    {"video_player_stream_info_overlay_channel", "get_id_from_login", "join_raid",
     "get_playback_access_token", "get_channel_points_context", "make_prediction",
     "claim_community_points", "claim_moment", "get_available_drops", "get_inventory",
     "get_viewer_drops_dashboard", "claim_drop_rewards", "get_user_points_contribution",
     "contribute_to_community_goal"}

\* ------------------------------------------------------ the pagination driver
Limits == {100}
Orders == {"ASC", "DESC"}

LoginV(j) == [tag |-> "str", s |-> "login", n |-> j]
Edge(j) == [node |-> [login |-> LoginV(j)], cursor |-> CursorV(j)]

\* json_data["variables"]["cursor"] = last_cursor
set_cursor_empty(h, json, last_cursor) == Store(h, h[json]["variables"].n, "cursor", SV(""))
set_cursor(h, json, last_cursor) == Store(h, h[json]["variables"].n, "cursor", last_cursor)

\* channel_follows, from its first line to the first page's executor call
channel_follows(t) ==
    /\ pc[t] = "idle"
    /\ \E limit \in Limits, order \in Orders :
        LET name == "ChannelFollows"
            c == deepcopy(heap, Template(name), json_data(t))
            b == set_variables(c, json_data(t),
                     SetItem(SetItem(EmptyDict, "limit", IV(limit)), "order", SV(order)))
            has_next == TRUE
            last_cursor == SV("")
            follows == <<>>
            h == set_cursor(b.h, json_data(t), last_cursor)
        IN  /\ heap' = h
            /\ local' = [local EXCEPT ![t] =
                            [NoLocal EXCEPT !.args = <<IV(limit), SV(order)>>,
                                            !.has_next = has_next,
                                            !.last_cursor = last_cursor,
                                            !.follows = follows]]
            /\ enter_make_attempts(t, operationName(heap, name),
                                   [batch |-> FALSE, refs |-> <<json_data(t)>>], h, <<>>)
    /\ op' = [op EXCEPT ![t] = "channel_follows"]
    /\ gen' = [gen EXCEPT ![t] = <<>>]
    /\ ret' = [ret EXCEPT ![t] = NoRet]
    /\ UNCHANGED <<strategy_vars, cmp>>

\* `for edge in parsed_response.follows.edges`: the logins appended to
\* follows, and last_cursor after the loop
logins(edges) == [i \in 1..Len(edges) |-> edges[i].node.login]
cursor_after_reset(last_cursor, edges) ==
    IF edges = <<>> THEN SV("") ELSE edges[Len(edges)].cursor
cursor_after(last_cursor, edges) ==
    IF edges = <<>> THEN last_cursor ELSE edges[Len(edges)].cursor

\* channel_follows after a page's executor call: the RetryError passes
\* through, or the page is taken in and the loop goes on or ends
channel_follows_page(t) ==
    /\ pc[t] = "returned"
    /\ op[t] = "channel_follows"
    /\ LET r == handle_result(outcome[t], opname[t])
           parsed_response == r.value
           edges == parsed_response.data.edges
           follows == local[t].follows \o logins(edges)
           last_cursor == cursor_after(local[t].last_cursor, edges)
           has_next == parsed_response.data.has_next_page
           ended == end_call(calls[t], r)
       IN  IF r.kind = "raise"
           THEN /\ ret' = [ret EXCEPT ![t] = r]
                /\ pc' = [pc EXCEPT ![t] = "done"]
                /\ calls' = [calls EXCEPT ![t] = ended]
                /\ UNCHANGED <<attempts, errors, outcome, events, heap, request,
                               opname, local, sent, received, log>>
           ELSE IF parsed_response = PyNone
           THEN \* "Unable to get follower list.": return []
                /\ ret' = [ret EXCEPT ![t] = ReturnValue(Typed("list", NoData, <<>>))]
                /\ pc' = [pc EXCEPT ![t] = "done"]
                /\ calls' = [calls EXCEPT ![t] = ended]
                /\ UNCHANGED <<attempts, errors, outcome, events, heap, request,
                               opname, local, sent, received, log>>
           ELSE IF has_next
           THEN /\ Len(calls[t]) < MaxPages
                /\ heap' = set_cursor(heap, json_data(t), last_cursor)
                /\ local' = [local EXCEPT ![t].has_next = has_next,
                                          ![t].last_cursor = last_cursor,
                                          ![t].follows = follows]
                /\ enter_make_attempts(t, opname[t], request[t],
                                       set_cursor(heap, json_data(t), last_cursor), ended)
                /\ UNCHANGED ret
           ELSE /\ ret' = [ret EXCEPT ![t] = ReturnValue(Typed("list", NoData, follows))]
                /\ pc' = [pc EXCEPT ![t] = "done"]
                /\ calls' = [calls EXCEPT ![t] = ended]
                /\ local' = [local EXCEPT ![t].has_next = has_next,
                                          ![t].last_cursor = last_cursor,
                                          ![t].follows = follows]
                /\ UNCHANGED <<attempts, errors, outcome, events, heap, request,
                               opname, sent, received, log>>
    /\ UNCHANGED <<strategy_vars, cmp, op, gen>>

\* -------------------------------------------------------- the batching driver
ChunkSize == 20

IdV(i) == [tag |-> "str", s |-> "campaign", n |-> i]
\* how many campaign ids a call is given: up to MaxFullChunks full chunks
\* and a part of one
Extras == {0, 1, 5}
IdCounts == {full * ChunkSize + extra : full \in 0..MaxFullChunks, extra \in Extras}

Min(a, b) == IF a <= b THEN a ELSE b

\* utils.create_chunks(lst, n): [lst[i:i + n] for i in range(0, len(lst), n)]
create_chunks(lst, n) ==
    [c \in 1..((Len(lst) + n - 1) \div n) |->
        SubSeq(lst, (c - 1) * n + 1, Min(c * n, Len(lst)))]

\* the body of `for campaign in chunk`: a copy of the template is appended
\* to json_data and given its variables
add_campaign(h, at, campaign, user_id) ==
    set_variables(deepcopy(h, Template("DropCampaignDetails"), at), at,
                  SetItem(SetItem(EmptyDict, "dropID", campaign), "channelLogin", SV(user_id)))

\* `json_data = []` and `for campaign in chunk`: the earlier chunk's dicts
\* are dropped; the i-th campaign's dicts follow those of the (i-1)-th
chunk_request(h, t, chunk) ==
    LET h0 == Free(h, t)
        at0 == json_data(t)
        size == add_campaign(h0, at0, IdV(0), "user_id").next - at0
        at(i) == at0 + (i - 1) * size
        made(i) == add_campaign(h0, at(i), chunk[i], "user_id").h
        last == Len(chunk)
    IN  [h |-> [r \in DOMAIN h0 \cup (at0..(at(last + 1) - 1)) |->
                   IF r \in DOMAIN h0
                   THEN (IF last = 0 THEN h0[r] ELSE made(last)[r])
                   ELSE made(((r - at0) \div size) + 1)[r]],
         refs |-> [i \in 1..last |-> at(i)]]

\* `for item in response: if item is not None: result.append(item)`
IsNotNone(item) == item # PyNone
extend_result_front(result, response) == SelectSeq(response.list, IsNotNone) \o result
extend_result(result, response) == result \o SelectSeq(response.list, IsNotNone)

\* get_drop_campaign_details, from its first line to the first chunk's
\* executor call, or to `return result` when there is no chunk
get_drop_campaign_details(t) ==
    /\ pc[t] = "idle"
    /\ \E n \in IdCounts :
        LET campaign_ids == [i \in 1..n |-> IdV(i)]
            chunks == create_chunks(campaign_ids, ChunkSize)
            result == <<>>
        IN  /\ local' = [local EXCEPT ![t] =
                            [NoLocal EXCEPT !.campaign_ids = campaign_ids,
                                            !.chunk = IF chunks = <<>> THEN 0 ELSE 1]]
            /\ IF chunks = <<>>
               THEN /\ ret' = [ret EXCEPT ![t] = ReturnValue(Typed("list", NoData, result))]
                    /\ pc' = [pc EXCEPT ![t] = "done"]
                    /\ calls' = [calls EXCEPT ![t] = <<>>]
                    /\ UNCHANGED <<attempts, errors, outcome, events, heap, request,
                                   opname, sent, received, log>>
               ELSE LET b == chunk_request(heap, t, chunks[1])
                    IN  /\ heap' = b.h
                        /\ ret' = [ret EXCEPT ![t] = NoRet]
                        /\ enter_make_attempts(t, operationName(heap, "DropCampaignDetails"),
                                               [batch |-> TRUE, refs |-> b.refs], b.h, <<>>)
    /\ op' = [op EXCEPT ![t] = "get_drop_campaign_details"]
    /\ gen' = [gen EXCEPT ![t] = <<>>]
    /\ UNCHANGED <<strategy_vars, cmp>>

\* get_drop_campaign_details after a chunk's executor call
get_drop_campaign_details_chunk(t) ==
    /\ pc[t] = "returned"
    /\ op[t] = "get_drop_campaign_details"
    /\ LET r == handle_result(outcome[t], opname[t])
           response == r.value
           chunks == create_chunks(local[t].campaign_ids, ChunkSize)
           result == IF response.typed # "list"
                     THEN local[t].result      \* "skipping chunk"
                     ELSE extend_result(local[t].result, response)
           ended == end_call(calls[t], r)
       IN  IF r.kind = "raise"
           THEN /\ ret' = [ret EXCEPT ![t] = r]
                /\ pc' = [pc EXCEPT ![t] = "done"]
                /\ calls' = [calls EXCEPT ![t] = ended]
                /\ UNCHANGED <<attempts, errors, outcome, events, heap, request,
                               opname, local, sent, received, log>>
           ELSE IF local[t].chunk < Len(chunks)
           THEN LET b == chunk_request(heap, t, chunks[local[t].chunk + 1])
                IN  /\ heap' = b.h
                    /\ local' = [local EXCEPT ![t].chunk = @ + 1, ![t].result = result]
                    /\ enter_make_attempts(t, opname[t],
                                           [batch |-> TRUE, refs |-> b.refs], b.h, ended)
                    /\ UNCHANGED ret
           ELSE /\ ret' = [ret EXCEPT ![t] = ReturnValue(Typed("list", NoData, result))]
                /\ pc' = [pc EXCEPT ![t] = "done"]
                /\ calls' = [calls EXCEPT ![t] = ended]
                /\ local' = [local EXCEPT ![t].result = result]
                /\ UNCHANGED <<attempts, errors, outcome, events, heap, request,
                               opname, sent, received, log>>
    /\ UNCHANGED <<strategy_vars, cmp, op, gen>>

\* ------------------------------------------------------ what the server does
DataIds == {SV("d1"), SV("d2")}

FailingTransports ==
    {TransportRaises("ConnectionError"), TransportRaises("Timeout"),
     Response(FALSE, JDict("malformed", NoData, <<>>))}

\* the error payloads the server answers with
ServerItemLists ==
    {<<>>, <<[recoverable |-> TRUE]>>, <<[recoverable |-> TRUE], [recoverable |-> FALSE]>>}

FaultyBodies ==
    {JDict("errors", NoData, items) : items \in ServerItemLists}
    \cup {JDict("malformed", NoData, <<>>), JDict("unexpected", NoData, <<>>),
          JDict("null", NoData, <<>>), JList(<<>>)}

SingleTransports ==
    FailingTransports
    \cup {Response(TRUE, b) : b \in FaultyBodies}
    \cup {Response(TRUE, JDict("data", DataRec(d, <<>>, FALSE), <<>>)) : d \in DataIds}

\* a page of the listing: the n edges after the cursor the request carries
CursorOf(body) == body[1]["variables"].d["cursor"].n
Page(k, n, has_next_page) ==
    JDict("data", DataRec(SV("page"), [i \in 1..n |-> Edge(k + i)], has_next_page), <<>>)

\* for a page: a timeout, errors of which one is not recoverable, null data
PageFaults ==
    {TransportRaises("Timeout"),
     Response(TRUE, JDict("errors", NoData, <<[recoverable |-> TRUE], [recoverable |-> FALSE]>>)),
     Response(TRUE, JDict("null", NoData, <<>>))}

PageTransports(body) ==
    PageFaults
    \cup {Response(TRUE, Page(CursorOf(body), n, hn)) : n \in 0..MaxEdges, hn \in BOOLEAN}

\* the answers to a batched request: an object, an array of objects (one
\* per sub-request), an array of arrays, an empty array, an array whose
\* first item carries errors
DropOf(body, i) == JDict("data", DataRec(body[i]["variables"].d["dropID"], <<>>, FALSE), <<>>)
BatchBodies(body) ==
    {JDict("data", NoData, <<>>), JList(<<>>),
     JList([i \in 1..Len(body) |-> DropOf(body, i)]),
     JList([i \in 1..Len(body) |-> JList(<<DropOf(body, i)>>)])}
    \cup {JList(<<JList(<<JDict("errors", NoData, items)>>)>>) : items \in ServerItemLists}

BatchTransports(body) ==
    FailingTransports \cup {Response(TRUE, b) : b \in BatchBodies(body)}

Transports(t) ==
    LET body == request_json(heap, request[t], "")
    IN  IF op[t] \in SimpleWrappers THEN SingleTransports
        ELSE IF op[t] = "channel_follows" THEN PageTransports(body)
        ELSE BatchTransports(body)

\* One attempt of the executor call in progress: one iteration of
\* make_attempts' loop with attempt = __post_gql_request(request_json, parse)
\* and validate = validate_response.
attempt_with(t, transports) ==
    /\ op[t] # ""
    /\ \E tr \in transports, fresh \in Tokens :
        LET a == post_gql_request(request[t].batch, opname[t], tr)
        IN  /\ make_attempts_step(t, a, validate_response(a.value))
            /\ sent' = [sent EXCEPT ![t] =
                            IF loop_test(attempts[t])
                            THEN Append(@, request_json(heap, request[t], fresh))
                            ELSE @]
            /\ received' = [received EXCEPT ![t] =
                                IF loop_test(attempts[t]) THEN Append(@, tr) ELSE @]
            /\ log' = [log EXCEPT ![t] =
                           IF loop_test(attempts[t])
                           THEN log_debug(@, request_json(heap, request[t], fresh), tr)
                           ELSE @]
    /\ UNCHANGED <<heap, op, request, opname, local, ret, calls, gen>>

Attempt(t) == attempt_with(t, Transports(t))

\* the rest of a wrapper after its executor call: __handle_result raises
\* RetryError through the wrapper or gives the wrapper its return value
ReturnSingle(t) ==
    /\ pc[t] = "returned"
    /\ op[t] \in SimpleWrappers
    /\ LET r == handle_result(outcome[t], opname[t])
       IN  ret' = [ret EXCEPT ![t] =
                      IF r.kind = "return" /\ ~ReturnsValue(op[t])
                      THEN [r EXCEPT !.value = PyNone] ELSE r]
    /\ calls' = [calls EXCEPT ![t] = end_call(@, handle_result(outcome[t], opname[t]))]
    /\ pc' = [pc EXCEPT ![t] = "done"]
    /\ UNCHANGED <<strategy_vars, cmp, attempts, errors, outcome, events,
                   heap, op, request, opname, local, sent, received, log, gen>>

\* the caller takes the result; the call's own objects are gone
Done(t) ==
    /\ pc[t] = "done"
    /\ pc' = [pc EXCEPT ![t] = "idle"]
    /\ attempts' = [attempts EXCEPT ![t] = 0]
    /\ errors' = [errors EXCEPT ![t] = <<>>]
    /\ outcome' = [outcome EXCEPT ![t] = NoOutcome]
    /\ events' = [events EXCEPT ![t] = <<>>]
    /\ heap' = Free(heap, t)
    /\ op' = [op EXCEPT ![t] = ""]
    /\ request' = [request EXCEPT ![t] = NoRequest]
    /\ opname' = [opname EXCEPT ![t] = ""]
    /\ local' = [local EXCEPT ![t] = NoLocal]
    /\ ret' = [ret EXCEPT ![t] = NoRet]
    /\ sent' = [sent EXCEPT ![t] = <<>>]
    /\ received' = [received EXCEPT ![t] = <<>>]
    /\ log' = [log EXCEPT ![t] = <<>>]
    /\ calls' = [calls EXCEPT ![t] = <<>>]
    /\ gen' = [gen EXCEPT ![t] = <<>>]
    /\ UNCHANGED <<strategy_vars, cmp>>

\* GQL.__init__: the default strategy is AttemptStrategy(attempts=3,
\* attempt_interval_seconds=1); another one can be handed in.
DefaultAttempts == 3
DefaultInterval == 1

\* no RetryError has been compared
NoCmp == [lhs |-> Exc("", "", <<>>), rhs |-> Exc("", "", <<>>), eq |-> FALSE]

IdleGQL ==
    /\ heap = Templates
    /\ op = [t \in Threads |-> ""]
    /\ request = [t \in Threads |-> NoRequest]
    /\ opname = [t \in Threads |-> ""]
    /\ local = [t \in Threads |-> NoLocal]
    /\ ret = [t \in Threads |-> NoRet]
    /\ sent = [t \in Threads |-> <<>>]
    /\ received = [t \in Threads |-> <<>>]
    /\ log = [t \in Threads |-> <<>>]
    /\ calls = [t \in Threads |-> <<>>]
    /\ gen = [t \in Threads |-> <<>>]

Init ==
    /\ maxAttempts \in 0..DefaultAttempts
    /\ interval = DefaultInterval
    /\ pc = [t \in Threads |-> "idle"]
    /\ attempts = [t \in Threads |-> 0]
    /\ errors = [t \in Threads |-> <<>>]
    /\ outcome = [t \in Threads |-> NoOutcome]
    /\ events = [t \in Threads |-> <<>>]
    /\ IdleGQL
    /\ cmp = NoCmp

Wrapper(t) ==
    \/ video_player_stream_info_overlay_channel(t)
    \/ get_id_from_login(t)
    \/ join_raid(t)
    \/ get_playback_access_token(t)
    \/ get_channel_points_context(t)
    \/ make_prediction(t)
    \/ claim_community_points(t)
    \/ claim_moment(t)
    \/ get_available_drops(t)
    \/ get_inventory(t)
    \/ get_viewer_drops_dashboard(t)
    \/ claim_drop_rewards(t)
    \/ get_user_points_contribution(t)
    \/ contribute_to_community_goal(t)
    \/ channel_follows(t)
    \/ get_drop_campaign_details(t)

Next ==
    \/ Wrapper(1)
    \/ Attempt(1)
    \/ Sleep(1)
    \/ ReturnSingle(1)
    \/ channel_follows_page(1)
    \/ get_drop_campaign_details_chunk(1)
    \/ Done(1)

Spec == Init /\ [][Next]_vars

\* ---------------------------------------- two threads on one GQL instance
\* Calls of wrappers by two threads, interleaved at the executor's steps.
\* The server times out, answers with data or with an unusable body.
ThreadTransports ==
    {TransportRaises("Timeout"),
     Response(TRUE, JDict("unexpected", NoData, <<>>)),
     Response(TRUE, JDict("data", DataRec(SV("d1"), <<>>, FALSE), <<>>))}

ThreadAttempt(t) == attempt_with(t, ThreadTransports)

ThreadWrapper(t) ==
    \/ get_id_from_login(t)
    \/ get_inventory(t)
    \/ join_raid(t)
    \/ get_playback_access_token(t)

NextThreads ==
    \/ \E t \in Threads : ThreadWrapper(t)
    \/ \E t \in Threads : ThreadAttempt(t)
    \/ \E t \in Threads : Sleep(t)
    \/ \E t \in Threads : ReturnSingle(t)
    \/ \E t \in Threads : Done(t)

SpecThreads == Init /\ [][NextThreads]_vars

\* ------------------------------------------------- RetryError.__eq__
\* Exception objects: two objects of the same class and content are two
\* objects.  The classes of Errors.py other than RetryError and the
\* exceptions of the libraries define no __eq__: == is identity.
ExceptionObject(oid) ==
    [oid |-> oid, cls |-> IF oid = 3 THEN "KeyError" ELSE "ConnectionError"]
exception_eq(a, b) == a.oid = b.oid

\* ExceptionContext.__eq__ (other is an ExceptionContext here)
context_eq(self, other) ==
    /\ exception_eq(self.exception, other.exception)
    /\ self.stack_trace = other.stack_trace

\* RetryError.__eq__
retry_eq_but_last(self, other) ==
    IF other.cls = "RetryError"
    THEN /\ self.operation_name = other.operation_name
         /\ Len(self.errors) = Len(other.errors)
         /\ \A index \in 1..(Len(self.errors) - 1) :
               context_eq(self.errors[index], other.errors[index])
    ELSE FALSE
retry_eq(self, other) ==
    IF other.cls = "RetryError"
    THEN /\ self.operation_name = other.operation_name
         /\ Len(self.errors) = Len(other.errors)
         /\ \A index \in 1..Len(self.errors) :
               context_eq(self.errors[index], other.errors[index])
    ELSE FALSE

\* the values compared: RetryErrors of up to MaxErrors errors, and values
\* that are no RetryError
Contexts ==
    {ExceptionContext(ExceptionObject(oid), format_exc(ExceptionObject(oid))) : oid \in 1..3}
    \cup {ExceptionContext(ExceptionObject(1), None)}
RetryErrors ==
    {RetryError(name, errs) : name \in {"GetIDFromLogin", "JoinRaid"},
                              errs \in SeqsUpTo(Contexts, MaxErrors)}
OtherValues ==
    {Exc("GQLResponseErrors", "JoinRaid", <<>>), Exc("str", "JoinRaid", <<>>)}

\* self == other, self a RetryError
Compare ==
    /\ cmp = NoCmp
    /\ \E self \in RetryErrors, other \in RetryErrors \cup OtherValues :
          cmp' = [lhs |-> self, rhs |-> other, eq |-> retry_eq(self, other)]
    /\ UNCHANGED <<strategy_vars, run_vars, gql_vars>>

InitEq == Init /\ maxAttempts = DefaultAttempts
NextEq == Compare
SpecEq == InitEq /\ [][NextEq]_vars

\* -------------------------------------------- the strategy on its own
\* make_attempts with arbitrary attempt and validate callables.
Values == {Typed("TResult", DataRec(SV(d), <<>>, FALSE), <<>>) : d \in {"v1", "v2"}}
AttemptOutcomes == {Returned(x) : x \in Values} \cup {Raised(e) : e \in Exceptions}
\* validate returns, or raises an error of one of the kinds: of the
\* transport, unexpected, GQL errors that can and that cannot be retried
ValidateExceptions ==
    { Exc("Timeout", "", <<>>), Exc("KeyError", "", <<>>),
      Exc("InvalidJsonShapeException", "", <<>>),
      Exc("GQLResponseErrors", "op", <<[recoverable |-> TRUE]>>),
      Exc("GQLResponseErrors", "op", <<[recoverable |-> FALSE]>>) }
ValidateOutcomes == {Returned(NoValue)} \cup {Raised(e) : e \in ValidateExceptions}

StrategyAttempt(t) ==
    /\ \E a \in AttemptOutcomes, v \in ValidateOutcomes : make_attempts_step(t, a, v)
    /\ UNCHANGED gql_vars

InitStrategy ==
    /\ maxAttempts \in -1..MaxAttemptsBound
    /\ interval \in 0..MaxInterval
    /\ pc = [t \in Threads |-> IF t = 1 THEN "attempt" ELSE "idle"]
    /\ attempts = [t \in Threads |-> 0]
    /\ errors = [t \in Threads |-> <<>>]
    /\ outcome = [t \in Threads |-> NoOutcome]
    /\ events = [t \in Threads |-> <<>>]
    /\ IdleGQL
    /\ cmp = NoCmp

NextStrategy == StrategyAttempt(1) \/ Sleep(1)

SpecStrategy == InitStrategy /\ [][NextStrategy]_vars

\* ------------------------------------------------- reading a run's history
IsAttempt(x) == x.ev = "attempt"
IsSleep(x) == x.ev = "sleep"
IsFailedAttempt(x) == x.ev = "attempt" /\ x.raised
AttemptsOf(ev) == SelectSeq(ev, IsAttempt)
SleepsOf(ev) == SelectSeq(ev, IsSleep)
\* the exceptions the run's attempts raised, in the order they were raised
RaisedIn(ev) ==
    LET f == SelectSeq(ev, IsFailedAttempt) IN [i \in 1..Len(f) |-> f[i].exception]
CausesOf(errs) == [i \in 1..Len(errs) |-> errs[i].exception]
RECURSIVE TotalSleep(_)
TotalSleep(ev) ==
    IF ev = <<>> THEN 0 ELSE TotalSleep(Tail(ev)) + Head(ev).seconds
\* attempt, sleep, attempt, ..., attempt: k attempts with a sleep between
\* each two of them and none after the last
AlternatesTo(ev, k) ==
    /\ Len(ev) = 2 * k - 1
    /\ \A i \in 1..Len(ev) : ev[i].ev = (IF i % 2 = 1 THEN "attempt" ELSE "sleep")
    /\ \A i \in 1..Len(ev) : IsSleep(ev[i]) => ev[i].seconds = interval

\* C1: with maxAttempts >= 1, when attempt k raises an error that is not
\* retryable the run has returned an ErrorResult with exactly k errors, the
\* raised ones oldest first; attempt k is the run's last event: k attempts,
\* k-1 sleeps (each between two attempts), nothing after attempt k.
C1_NonRetryableStops ==
    LET att == AttemptsOf(events[1]) IN
    maxAttempts >= 1 =>
        \A k \in 1..Len(att) :
            (att[k].raised /\ ~is_recoverable_error(att[k].exception)) =>
                /\ k <= maxAttempts
                /\ pc[1] = "returned"
                /\ outcome[1] = ErrorResult(errors[1])
                /\ Len(outcome[1].errors) = k
                /\ CausesOf(outcome[1].errors) = RaisedIn(events[1])
                /\ AlternatesTo(events[1], k)
                /\ attempts[1] = k

C1_Witness ==
    /\ maxAttempts = 3
    /\ Len(errors[1]) = 2
    /\ is_recoverable_error(errors[1][1].exception)
    /\ ~is_recoverable_error(errors[1][2].exception)
    /\ pc[1] = "returned"

\* C2: with maxAttempts >= 1, when attempt k returns and validates the run
\* has returned a SuccessResult with that value and exactly the k-1 errors
\* raised before, in order; k attempts were made and k-1 sleeps of
\* attempt_interval_seconds (none for an immediate success).
C2_SuccessAfterRetries ==
    LET att == AttemptsOf(events[1]) IN
    maxAttempts >= 1 =>
        \A k \in 1..Len(att) :
            ~att[k].raised =>
                /\ k <= maxAttempts
                /\ pc[1] = "returned"
                /\ outcome[1].kind = "SuccessResult"
                /\ outcome[1].errors = errors[1]
                /\ Len(outcome[1].errors) = k - 1
                /\ CausesOf(outcome[1].errors) = RaisedIn(events[1])
                /\ \A i \in 1..(k - 1) : is_recoverable_error(outcome[1].errors[i].exception)
                /\ AlternatesTo(events[1], k)
                /\ Len(SleepsOf(events[1])) = k - 1
                /\ TotalSleep(events[1]) = (k - 1) * interval
                /\ attempts[1] = k

C2_Witness ==
    /\ maxAttempts = 3
    /\ interval = 2
    /\ outcome[1].kind = "SuccessResult"
    /\ Len(outcome[1].errors) = 2
    /\ outcome[1].errors[1].exception # outcome[1].errors[2].exception

C2_WitnessImmediate ==
    /\ outcome[1].kind = "SuccessResult"
    /\ outcome[1].errors = <<>>
    /\ events[1] # <<>>

\* C3: a sleep only ever follows an attempt and, once the run has returned,
\* is followed by one; with maxAttempts >= 1 a run whose attempts all raised
\* retryable errors and that has returned made exactly maxAttempts attempts
\* and returned an ErrorResult with all of their errors in order, after
\* maxAttempts-1 sleeps; with maxAttempts = 1 there is at most one attempt
\* and no sleep.
C3_Exhaustion ==
    LET ev == events[1]
        att == AttemptsOf(ev)
    IN  /\ \A i \in 1..Len(ev) :
              IsSleep(ev[i]) =>
                  /\ i > 1 /\ IsAttempt(ev[i - 1])
                  /\ i < Len(ev) => IsAttempt(ev[i + 1])
                  /\ (i = Len(ev)) => pc[1] = "attempt"
        /\ Len(att) <= (IF maxAttempts >= 0 THEN maxAttempts ELSE 0)
        /\ (/\ maxAttempts >= 1
            /\ pc[1] = "returned"
            /\ \A k \in 1..Len(att) :
                  att[k].raised /\ is_recoverable_error(att[k].exception))
           => /\ Len(att) = maxAttempts
              /\ outcome[1] = ErrorResult(errors[1])
              /\ Len(outcome[1].errors) = maxAttempts
              /\ CausesOf(outcome[1].errors) = RaisedIn(ev)
              /\ AlternatesTo(ev, maxAttempts)
              /\ Len(SleepsOf(ev)) = maxAttempts - 1
        /\ maxAttempts = 1 => (Len(ev) <= 1 /\ SleepsOf(ev) = <<>>)

C3_Witness ==
    /\ maxAttempts = 3
    /\ pc[1] = "returned"
    /\ Len(errors[1]) = 3
    /\ \A k \in 1..3 : is_recoverable_error(errors[1][k].exception)
    /\ errors[1][1].exception # errors[1][3].exception

C3_WitnessOne ==
    /\ maxAttempts = 1
    /\ pc[1] = "returned"
    /\ Len(events[1]) = 1

\* ------------------------------------------------ the executor's properties
Mutating == {"make_prediction", "contribute_to_community_goal"}
\* the transactionID of the only request of an outbound payload
TransactionIdOf(payload) == payload[1]["variables"].d["input"].d["transactionID"]
\* the executor call in progress has ended and its wrapper has ended
Ended(t) == pc[t] = "done" /\ calls[t] # <<>>
LastCall(t) == calls[t][Len(calls[t])]

\* C4: during a call of make_prediction or contribute_to_community_goal
\* token_hex has produced exactly one token; every attempt made so far
\* handed one payload to post_request and each of these payloads carries
\* that token as its transactionID: the same in the first attempt and in
\* every retry.
C4_TransactionIdOnce ==
    op[1] \in Mutating =>
        /\ Len(gen[1]) = 1
        /\ Len(sent[1]) = Len(AttemptsOf(events[1]))
        /\ \A i \in 1..Len(sent[1]) :
              /\ Len(sent[1][i]) = 1
              /\ TransactionIdOf(sent[1][i]) = SV(gen[1][1])
              /\ sent[1][i] = sent[1][1]

C4_Witness ==
    /\ op[1] = "make_prediction"
    /\ maxAttempts = 3
    /\ Len(sent[1]) = 3
    /\ pc[1] = "done"
    /\ TransactionIdOf(sent[1][3]) = SV("t2")

C4_WitnessGoal ==
    /\ op[1] = "contribute_to_community_goal"
    /\ Len(sent[1]) = 2
    /\ outcome[1].kind = "SuccessResult"

\* C5: in every state, whatever calls were made and however they ended,
\* every template of GQLOperations (the request dict and its variables
\* dict) holds what it held at the start.
C5_TemplatesIntact ==
    \A r \in TemplateRefs : r \in DOMAIN heap /\ heap[r] = Templates[r]

\* get_id_from_login has written the login into the variables of its request
C5_Witness ==
    /\ op[1] = "get_id_from_login"
    /\ pc[1] = "done"
    /\ Json(heap, request[1].refs[1])["variables"].d["login"] = SV("b")
    /\ Json(heap, Template("GetIDFromLogin"))["variables"].d["login"] = SV("")

\* get_inventory has sent the template itself
C5_WitnessUncopied ==
    /\ op[1] = "get_inventory"
    /\ pc[1] = "done"
    /\ request[1].refs = <<Template("Inventory")>>
    /\ Len(sent[1]) >= 1

\* channel_follows has written a cursor for a second page
C5_WitnessPages ==
    /\ op[1] = "channel_follows"
    /\ pc[1] = "done"
    /\ Len(calls[1]) >= 2
    /\ Json(heap, request[1].refs[1])["variables"].d["cursor"] # SV("")

\* C6: an executor call that has ended (single or batch) has either
\* returned the value of the run's only successful attempt, which is the
\* run's last attempt, every earlier one having raised; or raised
\* RetryError(operation_name, errors) with errors holding the exception of
\* every attempt of the run, oldest first, as many as attempts were made.
\* A wrapper that raises raises this RetryError and nothing else.
C6_ReturnsOrRaisesRetry ==
    Ended(1) =>
        LET att == AttemptsOf(events[1])
        IN  /\ LastCall(1).ended \in {"return", "raise"}
            /\ LastCall(1).ended = "return" =>
                  /\ att # <<>>
                  /\ ~att[Len(att)].raised
                  /\ \A k \in 1..(Len(att) - 1) : att[k].raised
                  /\ LastCall(1).value = att[Len(att)].value
                  /\ ret[1].kind = "return"
                  /\ (op[1] \in SimpleWrappers /\ ReturnsValue(op[1]))
                         => ret[1].value = att[Len(att)].value
            /\ LastCall(1).ended = "raise" =>
                  /\ \A k \in 1..Len(att) : att[k].raised
                  /\ ret[1].kind = "raise"
                  /\ ret[1].exception.cls = "RetryError"
                  /\ ret[1].exception.operation_name = opname[1]
                  /\ Len(ret[1].exception.errors) = Len(att)
                  /\ CausesOf(ret[1].exception.errors) = RaisedIn(events[1])
            /\ ret[1].kind = "raise" => LastCall(1).ended = "raise"

C6_Witness ==
    /\ Ended(1)
    /\ request[1].batch
    /\ ret[1].kind = "raise"
    /\ Len(ret[1].exception.errors) = 3
    /\ ret[1].exception.errors[1].exception # ret[1].exception.errors[3].exception

C6_WitnessReturn ==
    /\ Ended(1)
    /\ ~request[1].batch
    /\ ret[1].kind = "return"
    /\ Len(AttemptsOf(events[1])) = 3
    /\ ret[1].value.typed = "GetIDFromLogin"

\* C7: of the attempts of an executor call, one in which post_request
\* raised a connection error or a timeout or answered with a bad status
\* raised, and so did one whose GQL error is all of recoverable errors: the
\* run went on to another attempt unless it was attempt maxAttempts.  An
\* attempt that raised a GQL error that is not recoverable, or any other
\* exception, is the last of the run, which has returned.
TransportFailed(tr) == tr.raises \/ ~tr.ok
\* attempt k was the run's last and make_attempts has returned
EndedRun(k) == Len(AttemptsOf(events[1])) = k /\ pc[1] \in {"returned", "done"}
\* after attempt k the run slept and went on, unless k was maxAttempts
Retried(k) ==
    /\ k <= maxAttempts
    /\ k < maxAttempts =>
           \/ Len(AttemptsOf(events[1])) = k /\ pc[1] \in {"sleep", "attempt"}
           \/ /\ Len(AttemptsOf(events[1])) > k
              /\ \E i \in 1..Len(events[1]) :
                    /\ IsSleep(events[1][i])
                    /\ Len(AttemptsOf(SubSeq(events[1], 1, i))) = k
    /\ k = maxAttempts => EndedRun(k)

C7_Classification ==
    LET att == AttemptsOf(events[1])
    IN  op[1] # "" =>
        /\ Len(received[1]) = Len(att)
        /\ \A k \in 1..Len(att) :
            LET e == att[k].exception
            IN  /\ TransportFailed(received[1][k]) =>
                      /\ att[k].raised
                      /\ e.cls \in {"ConnectionError", "Timeout", "HTTPError"}
                      /\ Retried(k)
                /\ (att[k].raised /\ ~TransportFailed(received[1][k])) =>
                      /\ e.cls \in {"GQLResponseErrors", "InvalidJsonShapeException", "KeyError"}
                      /\ e.cls = "GQLResponseErrors" =>
                            IF \A i \in 1..Len(e.errors) : e.errors[i].recoverable
                            THEN Retried(k) ELSE EndedRun(k)
                      /\ e.cls \in {"InvalidJsonShapeException", "KeyError"} => EndedRun(k)

\* a timeout, a bad status and a connection error, each retried
C7_Witness ==
    /\ op[1] \in SimpleWrappers
    /\ maxAttempts = 3
    /\ pc[1] = "returned"
    /\ Len(received[1]) = 3
    /\ received[1][1] = TransportRaises("Timeout")
    /\ ~received[1][2].raises /\ ~received[1][2].ok
    /\ received[1][3] = TransportRaises("ConnectionError")

\* a recoverable GQL error retried, then an unexpected exception
C7_WitnessOther ==
    /\ maxAttempts = 3
    /\ pc[1] = "returned"
    /\ Len(errors[1]) = 2
    /\ errors[1][1].exception.cls = "GQLResponseErrors"
    /\ errors[1][2].exception.cls = "KeyError"

C7_WitnessUnrecoverable ==
    /\ maxAttempts = 3
    /\ pc[1] = "returned"
    /\ Len(errors[1]) = 1
    /\ errors[1][1].exception.cls = "GQLResponseErrors"
    /\ Len(errors[1][1].exception.errors) = 2

\* ------------------------------------------------ the pagination driver's
\* the cursor a page's request carries, and the page the call returned
CursorSent(c) == c.body[1]["variables"].d["cursor"]
EdgesOf(c) == c.value.data.edges
HasNext(c) == c.value.data.has_next_page
IsPage(c) == c.ended = "return" /\ c.value # PyNone
RECURSIVE Concat(_)
Concat(seqs) == IF seqs = <<>> THEN <<>> ELSE Head(seqs) \o Concat(Tail(seqs))

\* a page's executor call has ended in an ErrorResult and channel_follows
\* has ended
PageFailed ==
    /\ op[1] = "channel_follows"
    /\ Ended(1)
    /\ outcome[1].kind = "ErrorResult"

\* C8, as the specification states it: when the executor call for a page
\* of channel_follows ends in an ErrorResult, channel_follows returns an
\* empty list.
C8_PageFailureReturnsEmpty ==
    PageFailed => ret[1] = ReturnValue(Typed("list", NoData, <<>>))

\* what channel_follows does: the RetryError of the page's call passes
\* through it, whatever was accumulated is not returned
C8_PageFailureRaises ==
    PageFailed =>
        /\ ret[1].kind = "raise"
        /\ ret[1].exception = RetryError("ChannelFollows", errors[1])

\* the second page fails after the first one brought logins
C8_Witness ==
    /\ PageFailed
    /\ Len(calls[1]) = 2
    /\ local[1].follows # <<>>
    /\ ret[1].kind = "raise"

\* C9: the calls channel_follows has made carry, the first the empty
\* cursor, each later one the cursor of the last edge of the page before
\* (the cursor that page was asked with when it has no edge), and each
\* page but the last reported a next page.  When channel_follows returns
\* after p calls that each returned a page, page p reported no next page
\* and the list returned is the logins of pages 1..p, page by page, edge
\* by edge.
C9_Pagination ==
    op[1] = "channel_follows" =>
        LET cs == calls[1]
            p == Len(cs)
        IN  /\ p >= 1
            /\ CursorSent(cs[1]) = SV("")
            /\ \A i \in 1..(p - 1) :
                  /\ IsPage(cs[i])
                  /\ HasNext(cs[i])
                  /\ CursorSent(cs[i + 1]) =
                        IF EdgesOf(cs[i]) = <<>> THEN CursorSent(cs[i])
                        ELSE EdgesOf(cs[i])[Len(EdgesOf(cs[i]))].cursor
            /\ (pc[1] = "done" /\ ret[1].kind = "return" /\ IsPage(cs[p])) =>
                  /\ ~HasNext(cs[p])
                  /\ ret[1].value.list =
                        Concat([i \in 1..p |->
                                   [j \in 1..Len(EdgesOf(cs[i])) |->
                                       EdgesOf(cs[i])[j].node.login]])

\* three pages with edges, the third reports no next page
C9_Witness ==
    /\ op[1] = "channel_follows"
    /\ pc[1] = "done"
    /\ ret[1].kind = "return"
    /\ Len(calls[1]) = 3
    /\ \A i \in 1..3 : IsPage(calls[1][i]) /\ EdgesOf(calls[1][i]) # <<>>
    /\ Len(EdgesOf(calls[1][2])) = 2
    /\ CursorSent(calls[1][3]) = CursorV(3)

\* a single page
C9_WitnessOnePage ==
    /\ op[1] = "channel_follows"
    /\ pc[1] = "done"
    /\ Len(calls[1]) = 1
    /\ ret[1].value.list = <<LoginV(1), LoginV(2)>>

\* -------------------------------------------------- the batching driver's
NotArray(tr) == ~tr.raises /\ tr.ok /\ tr.body.shape # "list"
ChunksOf(t) == create_chunks(local[t].campaign_ids, ChunkSize)
\* the answer to a chunk's request was not an array and
\* get_drop_campaign_details has ended
ChunkNotArray ==
    /\ op[1] = "get_drop_campaign_details"
    /\ Ended(1)
    /\ \E k \in 1..Len(received[1]) : NotArray(received[1][k])

\* C10, as the specification states it: when the answer to a chunk's
\* batched request is not an array, get_drop_campaign_details still issues
\* the requests of all chunks and returns.
C10_NonArrayChunkSkipped ==
    ChunkNotArray =>
        /\ ret[1].kind = "return"
        /\ Len(calls[1]) = Len(ChunksOf(1))

\* what get_drop_campaign_details does: the answer raises
\* InvalidJsonShapeException in the attempt, which ends the run, and the
\* RetryError passes through; no later chunk is requested
C10_NonArrayChunkRaises ==
    ChunkNotArray =>
        /\ ret[1].kind = "raise"
        /\ ret[1].exception.cls = "RetryError"
        /\ errors[1][Len(errors[1])].exception.cls = "InvalidJsonShapeException"
        /\ NotArray(received[1][Len(received[1])])

\* the first of three chunks is answered with an object
C10_Witness ==
    /\ ChunkNotArray
    /\ Len(ChunksOf(1)) = 3
    /\ Len(calls[1]) = 1
    /\ ret[1].kind = "raise"

\* the campaign id the j-th sub-request of a batched request asks for
DropIdOf(c, j) == c.body[j]["variables"].d["dropID"]

\* C11: get_drop_campaign_details with n ids has made at most ceil(n/20)
\* batched requests; the i-th one has a sub-request for each of the ids
\* 20(i-1)+1 .. min(20i, n), in that order: at least one and at most 20.
\* A later request is made only after the one before returned.  When it
\* returns, it has made exactly ceil(n/20) requests (none for n = 0) and
\* the list returned is, chunk after chunk, the items the chunk's call
\* returned that are not None.
C11_Chunking ==
    op[1] = "get_drop_campaign_details" =>
        LET ids == local[1].campaign_ids
            n == Len(ids)
            cs == calls[1]
        IN  /\ Len(cs) <= (n + 19) \div 20
            /\ \A i \in 1..Len(cs) :
                  /\ cs[i].batch
                  /\ Len(cs[i].body) = (IF 20 * i <= n THEN 20 ELSE n - 20 * (i - 1))
                  /\ Len(cs[i].body) \in 1..20
                  /\ \A j \in 1..Len(cs[i].body) : DropIdOf(cs[i], j) = ids[20 * (i - 1) + j]
                  /\ i < Len(cs) => cs[i].ended = "return"
            /\ (pc[1] = "done" /\ ret[1].kind = "return") =>
                  /\ Len(cs) = (n + 19) \div 20
                  /\ \A i \in 1..Len(cs) : cs[i].ended = "return"
                  /\ ret[1].value.list =
                        Concat([i \in 1..Len(cs) |-> SelectSeq(cs[i].value.list, IsNotNone)])

\* 45 ids: requests of 20, 20 and 5 sub-requests, and 45 items returned
C11_Witness ==
    /\ op[1] = "get_drop_campaign_details"
    /\ Len(local[1].campaign_ids) = 45
    /\ pc[1] = "done"
    /\ ret[1].kind = "return"
    /\ Len(calls[1]) = 3
    /\ Len(calls[1][1].body) = 20 /\ Len(calls[1][2].body) = 20 /\ Len(calls[1][3].body) = 5
    /\ Len(ret[1].value.list) = 45

\* no id, no request
C11_WitnessNone ==
    /\ op[1] = "get_drop_campaign_details"
    /\ local[1].campaign_ids = <<>>
    /\ pc[1] = "done"
    /\ calls[1] = <<>>
    /\ ret[1] = ReturnValue(Typed("list", NoData, <<>>))

\* ------------------------------------------------- the batch executor's
LastReceived(t) == received[t][Len(received[t])]
\* the batch executor's run has ended and its last attempt was answered
\* with an array of as many objects with data as the request has bodies
PositionalAnswer ==
    /\ request[1].batch
    /\ pc[1] \in {"returned", "done"}
    /\ received[1] # <<>>
    /\ ~LastReceived(1).raises /\ LastReceived(1).ok
    /\ LastReceived(1).body.shape = "list"
    /\ Len(LastReceived(1).body.items) = Len(request[1].refs)
    /\ \A i \in 1..Len(request[1].refs) :
          /\ LastReceived(1).body.items[i].shape = "dict"
          /\ LastReceived(1).body.items[i].kind = "data"

\* C12, as the specification states it: post_gql_request_batch with n
\* request bodies, answered with an array of n elements, returns n values
\* in order, the i-th being parse applied to the i-th element.
C12_BatchDecodesPositionally ==
    PositionalAnswer =>
        /\ outcome[1].kind = "SuccessResult"
        /\ outcome[1].result.list =
              [i \in 1..Len(request[1].refs) |->
                  parse(opname[1], LastReceived(1).body.items[i]).value]

\* what post_gql_request_batch does: __post_gql_request maps over the
\* array the callable it is given, which is parse_list(parse, .), so every
\* element has to be an array itself; an object raises
\* InvalidJsonShapeException and the run ends in an ErrorResult
C12_ObjectElementsRaise ==
    PositionalAnswer =>
        /\ outcome[1].kind = "ErrorResult"
        /\ errors[1][Len(errors[1])].exception.cls = "InvalidJsonShapeException"

\* an array of arrays is what it decodes: element by element, a list
C12_NestedDecodes ==
    (/\ request[1].batch
     /\ pc[1] \in {"returned", "done"}
     /\ outcome[1].kind = "SuccessResult") =>
        /\ LastReceived(1).body.shape = "list"
        /\ Len(outcome[1].result.list) = Len(LastReceived(1).body.items)
        /\ \A i \in 1..Len(outcome[1].result.list) :
              /\ LastReceived(1).body.items[i].shape = "list"
              /\ outcome[1].result.list[i].typed = "list"

\* three bodies, an array of three objects
C12_Witness ==
    /\ PositionalAnswer
    /\ Len(request[1].refs) >= 3
    /\ pc[1] = "done"
    /\ ret[1].kind = "raise"

\* C13: in a run of the batch executor an attempt that was answered with
\* something that is not an array raised InvalidJsonShapeException and is
\* the run's last event: no sleep and no other call of post_request follow
\* it, make_attempts has returned an ErrorResult whose last error is that
\* exception, and what the caller gets is the RetryError with these errors.
C13_NonArrayEndsRun ==
    request[1].batch =>
        \A k \in 1..Len(received[1]) :
            NotArray(received[1][k]) =>
                LET att == AttemptsOf(events[1])
                IN  /\ k = Len(received[1])
                    /\ Len(att) = k
                    /\ att[k].raised
                    /\ att[k].exception.cls = "InvalidJsonShapeException"
                    /\ IsAttempt(events[1][Len(events[1])])
                    /\ Len(SleepsOf(events[1])) = k - 1
                    /\ pc[1] \in {"returned", "done"}
                    /\ outcome[1] = ErrorResult(errors[1])
                    /\ Len(errors[1]) = k
                    /\ errors[1][k].exception.cls = "InvalidJsonShapeException"
                    /\ pc[1] = "done" =>
                          /\ ret[1].kind = "raise"
                          /\ ret[1].exception.cls = "RetryError"
                          /\ ret[1].exception.errors = errors[1]

\* a timeout, then an object where an array was due
C13_Witness ==
    /\ request[1].batch
    /\ pc[1] = "done"
    /\ maxAttempts = 3
    /\ Len(received[1]) = 2
    /\ received[1][1] = TransportRaises("Timeout")
    /\ NotArray(received[1][2])
    /\ ret[1].exception.errors[2].exception.cls = "InvalidJsonShapeException"

\* ------------------------------------------------ validate in make_attempts
\* C14: an attempt of the run in which attempt() raised, or attempt()
\* returned and validate raised on its value, counts as one attempt and is
\* recorded at its place in errors as ExceptionContext(e, context); when e
\* is retryable the run sleeps and goes on unless it was attempt
\* maxAttempts, when it is not the run ends there.  The two cases do not
\* differ.  A SuccessResult is returned only by an attempt in which neither
\* attempt() nor validate raised, and carries the value attempt() returned.
C14_ValidateFailureIsAttemptFailure ==
    LET att == AttemptsOf(events[1])
    IN  /\ attempts[1] = Len(att)
        /\ \A k \in 1..Len(att) :
              (att[k].attempt_raised \/ att[k].validate_raised) =>
                  /\ att[k].raised
                  /\ Len(errors[1]) >= k
                  /\ errors[1][k].exception = att[k].exception
                  /\ \A i \in 1..(k - 1) : att[i].raised
                  /\ IF is_recoverable_error(att[k].exception)
                     THEN Retried(k) ELSE EndedRun(k)
        /\ outcome[1].kind = "SuccessResult" =>
              /\ att # <<>>
              /\ ~att[Len(att)].attempt_raised
              /\ ~att[Len(att)].validate_raised
              /\ outcome[1].result = att[Len(att)].value
              /\ Len(outcome[1].errors) = Len(att) - 1

\* validate fails with a retryable error, then attempt() fails, then
\* validate fails with an error that is not retryable
C14_Witness ==
    LET att == AttemptsOf(events[1])
    IN  /\ maxAttempts >= 3
        /\ pc[1] = "returned"
        /\ Len(att) = 3
        /\ att[1].validate_raised /\ is_recoverable_error(att[1].exception)
        /\ att[2].attempt_raised
        /\ att[3].validate_raised /\ ~is_recoverable_error(att[3].exception)
        /\ Len(outcome[1].errors) = 3

\* validate fails once, then both succeed
C14_WitnessSuccess ==
    LET att == AttemptsOf(events[1])
    IN  /\ Len(att) = 2
        /\ att[1].validate_raised
        /\ outcome[1].kind = "SuccessResult"
        /\ Len(outcome[1].errors) = 1

\* --------------------------------------------------- recoverable()
\* every item of a GQLResponseErrors is recoverable
AllItemsRecoverable(e) == \A i \in 1..Len(e.errors) : e.errors[i].recoverable

\* C15: of the GQL errors a run's attempts raised, a GQLResponseErrors is
\* recoverable exactly when all of its items are (so is one without
\* items), an InvalidJsonShapeException and a RetryError are not; and the
\* run went on after the former and ended at the latter.
C15_Recoverability ==
    LET att == AttemptsOf(events[1])
    IN  \A k \in 1..Len(att) :
            LET e == att[k].exception
            IN  /\ (att[k].raised /\ e.cls = "GQLResponseErrors") =>
                      /\ recoverable(e) = AllItemsRecoverable(e)
                      /\ e.errors = <<>> => recoverable(e)
                      /\ IF AllItemsRecoverable(e) THEN Retried(k) ELSE EndedRun(k)
                /\ (att[k].raised /\ e.cls \in {"InvalidJsonShapeException", "RetryError"}) =>
                      /\ ~recoverable(e)
                      /\ EndedRun(k)

\* errors without items are retried, errors with one item that is not
\* recoverable among recoverable ones end the run
C15_Witness ==
    /\ maxAttempts = 3
    /\ pc[1] = "returned"
    /\ Len(errors[1]) = 2
    /\ errors[1][1].exception = Exc("GQLResponseErrors", "op", <<>>)
    /\ errors[1][2].exception =
          Exc("GQLResponseErrors", "op", <<[recoverable |-> TRUE], [recoverable |-> FALSE]>>)

C15_WitnessShape ==
    /\ maxAttempts = 3
    /\ pc[1] = "returned"
    /\ Len(errors[1]) = 2
    /\ errors[1][1].exception =
          Exc("GQLResponseErrors", "op", <<[recoverable |-> TRUE], [recoverable |-> TRUE]>>)
    /\ errors[1][2].exception.cls = "InvalidJsonShapeException"

C15_WitnessRetry ==
    /\ maxAttempts = 3
    /\ pc[1] = "returned"
    /\ Len(errors[1]) = 1
    /\ errors[1][1].exception.cls = "RetryError"

\* ------------------------------------------------------ the attempts' log
IsAnswered(tr) == ~tr.raises

\* C16, as the specification states it: during and after a run of the
\* executor there is one log record for each attempt made, with the
\* attempt's payload, status and response body.
C16_OneLogPerAttempt ==
    op[1] # "" =>
        /\ Len(log[1]) = Len(AttemptsOf(events[1]))
        /\ \A k \in 1..Len(log[1]) :
              log[1][k] = LogRecord(sent[1][k], received[1][k])

\* what __post_gql_request does: the record is written after post_request
\* has returned and before raise_for_status, so there is one for every
\* attempt that was answered, whatever the status and the body, and none
\* for an attempt in which post_request raised
C16_LogWhenAnswered ==
    op[1] # "" =>
        LET answered == {k \in 1..Len(received[1]) : IsAnswered(received[1][k])}
        IN  /\ Len(log[1]) = Cardinality(answered)
            /\ \A k \in answered :
                  log[1][Cardinality({j \in answered : j <= k})] =
                      LogRecord(sent[1][k], received[1][k])

\* a run of three attempts of which the first timed out: two records
C16_Witness ==
    /\ op[1] \in SimpleWrappers
    /\ pc[1] = "done"
    /\ Len(AttemptsOf(events[1])) = 3
    /\ received[1][1] = TransportRaises("Timeout")
    /\ IsAnswered(received[1][2]) /\ IsAnswered(received[1][3])
    /\ Len(log[1]) = 2

\* ------------------------------------------------------ calls by two threads
Range(f) == {f[i] : i \in DOMAIN f}
\* the values a payload's variables hold, those of variables.input included
Scalars(d) == {d[k] : k \in {x \in DOMAIN d : d[x].tag # "dict"}}
LeavesOf(d) == Scalars(d) \cup UNION {Scalars(d[k].d) : k \in {x \in DOMAIN d : d[x].tag = "dict"}}
\* the values a caller can give as a parameter
ParamValues == {SV(x) : x \in Strs}
\* what an attempt does when post_request does tr
OutcomeOf(t, tr) == post_gql_request(request[t].batch, opname[t], tr)

\* C17: whatever the two threads do and in whatever order, in the call a
\* thread is in every payload handed to post_request names the call's own
\* operation and holds, of the values callers give, exactly those this
\* call was given; the call's attempt count is the number of attempts it
\* made, and its errors are, in order, those its own attempts raised, each
\* what its own answer from post_request gives.
C17_Isolation ==
    \A t \in Threads :
        op[t] # "" =>
            LET att == AttemptsOf(events[t])
            IN  /\ \A i \in 1..Len(sent[t]) :
                      /\ Len(sent[t][i]) = 1
                      /\ sent[t][i][1]["operationName"] = SV(opname[t])
                      /\ LeavesOf(sent[t][i][1]["variables"].d) \cap ParamValues
                            = Range(local[t].args) \cap ParamValues
                /\ attempts[t] = Len(att)
                /\ Len(sent[t]) = Len(att)
                /\ Len(received[t]) = Len(att)
                /\ CausesOf(errors[t]) = RaisedIn(events[t])
                /\ \A k \in 1..Len(att) :
                      /\ att[k].raised = OutcomeOf(t, received[t][k]).raised
                      /\ att[k].exception = OutcomeOf(t, received[t][k]).exception

\* both threads are in get_id_from_login with different logins, each has
\* made two attempts, with different errors
C17_Witness ==
    /\ op[1] = "get_id_from_login" /\ op[2] = "get_id_from_login"
    /\ local[1].args = <<SV("a")>> /\ local[2].args = <<SV("b")>>
    /\ Len(sent[1]) = 2 /\ Len(sent[2]) = 2
    /\ pc[1] = "returned" /\ pc[2] = "sleep"
    /\ Len(errors[1]) = 2 /\ errors[1][2].exception.cls = "KeyError"
    /\ Len(errors[2]) = 2 /\ errors[2][2].exception.cls = "Timeout"

\* one thread sends the template itself while the other is in a call
C17_WitnessUncopied ==
    /\ op[1] = "get_inventory" /\ op[2] = "join_raid"
    /\ Len(sent[1]) = 1 /\ Len(sent[2]) = 1
    /\ pc[1] = "sleep" /\ pc[2] = "sleep"

\* ------------------------------------------------------ RetryError's ==
\* C18: a RetryError compared with a value is equal to it exactly when the
\* value is a RetryError with the same operation_name and an errors list
\* of the same length whose entry at every position is equal to the one at
\* that position (the same exception object with the same stack trace).
C18_RetryEquality ==
    cmp # NoCmp =>
        LET a == cmp.lhs
            b == cmp.rhs
        IN  /\ a.cls = "RetryError"
            /\ cmp.eq <=>
                  /\ b.cls = "RetryError"
                  /\ a.operation_name = b.operation_name
                  /\ Len(a.errors) = Len(b.errors)
                  /\ \A i \in 1..Len(a.errors) : i <= Len(b.errors) /\ a.errors[i] = b.errors[i]
            /\ b.cls # "RetryError" => ~cmp.eq
            /\ (b.cls = "RetryError" /\ a.operation_name # b.operation_name) => ~cmp.eq
            /\ (b.cls = "RetryError" /\ Len(a.errors) # Len(b.errors)) => ~cmp.eq
            /\ (\E i \in 1..Len(a.errors) : i <= Len(b.errors) /\ a.errors[i] # b.errors[i])
                  => ~cmp.eq

\* two errors lists that differ at the last position only
C18_Witness ==
    /\ cmp.lhs.cls = "RetryError" /\ cmp.rhs.cls = "RetryError"
    /\ cmp.lhs.operation_name = cmp.rhs.operation_name
    /\ Len(cmp.lhs.errors) = 2 /\ Len(cmp.rhs.errors) = 2
    /\ cmp.lhs.errors[1] = cmp.rhs.errors[1]
    /\ cmp.lhs.errors[2] # cmp.rhs.errors[2]
    /\ ~cmp.eq

C18_WitnessEqual ==
    /\ cmp.lhs.cls = "RetryError"
    /\ Len(cmp.lhs.errors) = 2
    /\ cmp.lhs.errors[1] # cmp.lhs.errors[2]
    /\ cmp.eq

C18_WitnessOther ==
    /\ cmp.lhs.cls = "RetryError"
    /\ cmp.rhs.cls = "GQLResponseErrors"
    /\ cmp.lhs.operation_name = cmp.rhs.operation_name
    /\ cmp.lhs.errors = cmp.rhs.errors

\* ------------------------------------------------------ error_context
DomainErrorClasses == {"GQLResponseErrors", "InvalidJsonShapeException", "RetryError"}

\* C19: every ExceptionContext recorded by a run with the executor's
\* error_context carries a stack trace exactly when its exception is none
\* of GQLResponseErrors, InvalidJsonShapeException and RetryError: the
\* exceptions of the transport and the unexpected ones carry the text of
\* their traceback, the GQL errors carry None.
C19_DiagnosticForNonDomain ==
    /\ \A k \in 1..Len(errors[1]) :
          LET c == errors[1][k]
          IN  /\ c.stack_trace.present <=> c.exception.cls \notin DomainErrorClasses
              /\ c.stack_trace.present => c.stack_trace.text # ""
              /\ ~c.stack_trace.present => c.stack_trace = None
    /\ outcome[1].kind # "none" => outcome[1].errors = errors[1]

\* a timeout and an unexpected error with a trace, GQL errors without
C19_Witness ==
    /\ pc[1] = "returned"
    /\ Len(outcome[1].errors) = 3
    /\ outcome[1].errors[1].exception.cls = "Timeout"
    /\ outcome[1].errors[1].stack_trace.present
    /\ outcome[1].errors[2].exception.cls = "GQLResponseErrors"
    /\ ~outcome[1].errors[2].stack_trace.present
    /\ outcome[1].errors[3].exception.cls = "KeyError"
    /\ outcome[1].errors[3].stack_trace.present

C19_WitnessRetry ==
    /\ pc[1] = "returned"
    /\ Len(outcome[1].errors) = 2
    /\ outcome[1].errors[2].exception.cls = "RetryError"
    /\ outcome[1].errors[2].stack_trace = None

\* ------------------------------------------------- the payload's frame
\* the operation's template as GQLOperations defines it
TemplateJson(operation_name) == Json(Templates, Template(operation_name))
\* payload p and template T have the same fields and the same value in
\* every field other than `variables`
SameButVariables(p, T) ==
    /\ DOMAIN p = DOMAIN T
    /\ \A k \in DOMAIN p \ {"variables"} : p[k] = T[k]

\* C20: every payload of every attempt of a wrapper's executor call has
\* the fields of the operation's template and, in each field other than
\* `variables`, the template's value: operationName and extensions are
\* those of the template, and the template in GQLOperations keeps them.
C20_OnlyVariablesWritten ==
    opname[1] \in Range(OperationNames) =>
        /\ \A i \in 1..Len(sent[1]) :
              /\ Len(sent[1][i]) = Len(request[1].refs)
              /\ \A j \in 1..Len(sent[1][i]) :
                    /\ SameButVariables(sent[1][i][j], TemplateJson(opname[1]))
                    /\ sent[1][i][j]["operationName"] = SV(opname[1])
        /\ SameButVariables(Json(heap, Template(opname[1])), TemplateJson(opname[1]))

\* join_raid: three attempts, each with the template's fields and the
\* wrapper's variables
C20_Witness ==
    /\ op[1] = "join_raid"
    /\ pc[1] = "done"
    /\ Len(sent[1]) = 3
    /\ \A i \in 1..3 :
          /\ sent[1][i][1]["variables"] # TemplateJson("JoinRaid")["variables"]
          /\ sent[1][i][1]["extensions"] = TemplateJson("JoinRaid")["extensions"]

\* get_drop_campaign_details: a batch of several payloads, sent twice
C20_WitnessBatch ==
    /\ op[1] = "get_drop_campaign_details"
    /\ Len(sent[1]) >= 2
    /\ Len(sent[1][2]) >= 2
    /\ sent[1][2][2]["variables"] # sent[1][2][1]["variables"]
    /\ sent[1][2][2]["operationName"] = SV("DropCampaignDetails")

\* get_id_from_login fills the skeleton of its copy's variables
C20_WitnessSkeleton ==
    /\ op[1] = "get_id_from_login"
    /\ Len(sent[1]) >= 2
    /\ sent[1][2][1]["variables"].d["login"] = SV("b")
    /\ sent[1][2][1]["operationName"] = SV("GetIDFromLogin")
    /\ Json(heap, Template("GetIDFromLogin")) = TemplateJson("GetIDFromLogin")

\* get_inventory sends the template as it is
C20_WitnessTemplate ==
    /\ op[1] = "get_inventory"
    /\ Len(sent[1]) >= 2
    /\ sent[1][2][1] = TemplateJson("Inventory")

\* ------------------------------------------------------ the attempt count
\* C21: in a run of make_attempts with maxAttempts >= 1 the attempts made
\* are never more than maxAttempts; the run's events start with an attempt
\* and an attempt is always followed by a sleep and a sleep by an attempt,
\* so that no two attempts are adjacent; a run that has returned made at
\* least one attempt and one sleep fewer than attempts, and the `attempts`
\* of the result it returned (len(errors) of an ErrorResult, len(errors) + 1
\* of a SuccessResult) is the number of attempts made.
C21_AttemptCount ==
    LET ev == events[1]
        att == AttemptsOf(ev)
    IN  maxAttempts >= 1 =>
            /\ Len(att) <= maxAttempts
            /\ attempts[1] = Len(att)
            /\ ev # <<>> => IsAttempt(ev[1])
            /\ \A i \in 1..(Len(ev) - 1) : IsAttempt(ev[i]) <=> IsSleep(ev[i + 1])
            /\ pc[1] = "returned" =>
                  /\ Len(att) >= 1
                  /\ IsAttempt(ev[Len(ev)])
                  /\ Len(SleepsOf(ev)) = Len(att) - 1
                  /\ outcome[1].kind \in {"SuccessResult", "ErrorResult"}
                  /\ result_attempts(outcome[1]) = Len(att)

\* a success at the third attempt, after two sleeps
C21_Witness ==
    /\ maxAttempts = 3
    /\ pc[1] = "returned"
    /\ outcome[1].kind = "SuccessResult"
    /\ Len(AttemptsOf(events[1])) = 3
    /\ Len(SleepsOf(events[1])) = 2
    /\ result_attempts(outcome[1]) = 3

\* a failure at the second attempt of three allowed
C21_WitnessFailure ==
    /\ maxAttempts = 3
    /\ pc[1] = "returned"
    /\ outcome[1].kind = "ErrorResult"
    /\ Len(AttemptsOf(events[1])) = 2
    /\ result_attempts(outcome[1]) = 2

\* --------------------------------------------------- retries of a page
\* the pages channel_follows has taken in: all but the call in progress or
\* the call that did not give a page
PagesTaken(t) ==
    LET p == Len(calls[t])
    IN  IF p = 0 THEN 0
        ELSE IF pc[t] = "done" /\ IsPage(calls[t][p]) THEN p ELSE p - 1
LoginsOf(c) == [j \in 1..Len(EdgesOf(c)) |-> EdgesOf(c)[j].node.login]

\* in channel_follows, at every moment of the page in hand
PageRetries ==
    op[1] = "channel_follows" =>
        LET cs == calls[1]
            p == Len(cs)
            att == AttemptsOf(events[1])
        IN  /\ p >= 1
            \* every attempt of the page sends the request of its first
            \* attempt, with the cursor the page started with
            /\ Len(sent[1]) = Len(att)
            /\ Len(att) <= maxAttempts
            /\ \A i \in 1..Len(sent[1]) :
                  /\ sent[1][i] = cs[p].body
                  /\ sent[1][i][1]["variables"].d["cursor"] = CursorSent(cs[p])
            \* failed attempts move neither the cursor nor the list
            /\ PagesTaken(1) = p - 1 => local[1].last_cursor = CursorSent(cs[p])
            /\ local[1].follows = Concat([i \in 1..PagesTaken(1) |-> LoginsOf(cs[i])])
            \* the page's run ends in an ErrorResult on an error that can
            \* be retried only when it has made maxAttempts attempts
            /\ (/\ outcome[1].kind = "ErrorResult"
                /\ errors[1] # <<>>
                /\ is_recoverable_error(errors[1][Len(errors[1])].exception)) =>
                  Len(att) = maxAttempts

\* the step that starts a page's call starts a run of make_attempts with
\* no attempt made and no error recorded, whatever the run of the page
\* before did
PageStartsFresh ==
    (/\ op'[1] = "channel_follows"
     /\ calls'[1] # <<>>
     /\ Len(calls'[1]) # Len(calls[1])) =>
        /\ Len(calls'[1]) = Len(calls[1]) + 1
        /\ attempts'[1] = 0
        /\ errors'[1] = <<>>
        /\ events'[1] = <<>>
        /\ sent'[1] = <<>>
        /\ pc'[1] = "attempt"
        /\ Len(calls[1]) >= 1 =>
              /\ pc[1] = "returned"
              /\ outcome[1].kind = "SuccessResult"
              /\ IsPage(calls'[1][Len(calls[1])])

\* C22: in channel_follows every attempt of a page's call, the first and
\* the retries, sends the same request with the same cursor; the cursor
\* and the accumulated list change only when the page's call has
\* succeeded, and the list holds the logins of each page taken in once,
\* in order; the call of every page starts with no attempt counted and
\* makes up to maxAttempts attempts.
C22_PageRetries == []PageRetries /\ [][PageStartsFresh]_vars

\* the second page fails twice and succeeds at its third attempt; both
\* pages' logins are returned once
C22_Witness ==
    /\ op[1] = "channel_follows"
    /\ maxAttempts = 3
    /\ pc[1] = "done"
    /\ ret[1].kind = "return"
    /\ Len(calls[1]) = 2
    /\ Len(sent[1]) = 3
    /\ Len(errors[1]) = 2
    /\ CursorSent(calls[1][2]) = CursorV(2)
    /\ \A i \in 1..3 : sent[1][i][1]["variables"].d["cursor"] = CursorV(2)
    /\ ret[1].value.list = <<LoginV(1), LoginV(2), LoginV(3), LoginV(4)>>

\* the second page's call is at its third attempt: the cursor is the one
\* the first page left
C22_WitnessRetrying ==
    /\ op[1] = "channel_follows"
    /\ Len(calls[1]) = 2
    /\ pc[1] = "attempt"
    /\ attempts[1] = 2
    /\ local[1].last_cursor = CursorV(1)
    /\ local[1].follows = <<LoginV(1)>>

\* ------------------------------------------------- a page without edges
EmptyWithNext(c) == IsPage(c) /\ EdgesOf(c) = <<>> /\ HasNext(c)
\* the call of a page has ended without giving a page: a RetryError, or
\* the response that is None
PageCallFailed(c) == c.ended = "raise" \/ (c.ended = "return" /\ c.value = PyNone)

EmptyPages ==
    op[1] = "channel_follows" =>
        LET cs == calls[1]
            p == Len(cs)
        IN  \* after a page without edges that reports a next page the
            \* next call sends the request of the call before, same cursor
            /\ \A i \in 1..(p - 1) :
                  EmptyWithNext(cs[i]) =>
                      /\ CursorSent(cs[i + 1]) = CursorSent(cs[i])
                      /\ cs[i + 1].body = cs[i].body
            \* channel_follows has ended: its last page reported no next
            \* page, or its last call failed
            /\ pc[1] = "done" =>
                  \/ IsPage(cs[p]) /\ ~HasNext(cs[p])
                  \/ PageCallFailed(cs[p])
            \* as long as every answer is a page without edges that
            \* reports a next page, channel_follows has not ended
            /\ (\A i \in 1..p : cs[i].ended # "" => EmptyWithNext(cs[i])) =>
                  /\ pc[1] # "done"
                  /\ ret[1] = NoRet
                  /\ local[1].follows = <<>>
                  /\ local[1].last_cursor = SV("")

\* a step taken when the page's call has returned a page without edges
\* that reports a next page: the loop is where it was one page earlier,
\* with the same request, the same cursor and the same list
EmptyPageRepeats ==
    (/\ op[1] = "channel_follows"
     /\ pc[1] = "returned"
     /\ outcome[1].kind = "SuccessResult"
     /\ outcome[1].result # PyNone
     /\ outcome[1].result.data.edges = <<>>
     /\ outcome[1].result.data.has_next_page) =>
        /\ pc'[1] = "attempt"
        /\ attempts'[1] = 0
        /\ heap' = heap
        /\ request' = request
        /\ local' = local
        /\ ret' = ret
        /\ Len(calls'[1]) = Len(calls[1]) + 1
        /\ calls'[1][Len(calls'[1])].body = calls[1][Len(calls[1])].body

\* C23: in channel_follows a page without edges that reports a next page
\* leaves the cursor as it was, and the next call sends the same request
\* with the same cursor; channel_follows ends only on a page that reports
\* no next page or on a call that failed; while the server answers every
\* call with a page without edges that reports a next page the loop
\* repeats the same call from the same state and channel_follows does not
\* end.
C23_EmptyPageLoops == []EmptyPages /\ [][EmptyPageRepeats]_vars

\* a page with an edge, then two pages without edges: the third and the
\* fourth call send the cursor of the second
C23_Witness ==
    /\ op[1] = "channel_follows"
    /\ Len(calls[1]) = MaxPages
    /\ pc[1] = "returned"
    /\ ~EmptyWithNext(calls[1][1]) /\ HasNext(calls[1][1])
    /\ \A i \in 2..(MaxPages - 1) : EmptyWithNext(calls[1][i])
    /\ \A i \in 2..MaxPages : CursorSent(calls[1][i]) = CursorV(1)
    /\ outcome[1].kind = "SuccessResult"
    /\ outcome[1].result.data.edges = <<>>
    /\ outcome[1].result.data.has_next_page

\* every answer so far was a page without edges that reports a next page
C23_WitnessEmptyServer ==
    /\ op[1] = "channel_follows"
    /\ Len(calls[1]) = MaxPages
    /\ \A i \in 1..(MaxPages - 1) : EmptyWithNext(calls[1][i])
    /\ \A i \in 1..MaxPages : CursorSent(calls[1][i]) = SV("")
    /\ pc[1] = "attempt"

\* ------------------------------------------- a chunk whose call failed
\* the run of the chunk in hand has ended in an ErrorResult after
\* maxAttempts attempts, each failed with an error of the transport
TransportFailure(t) ==
    /\ outcome[t].kind = "ErrorResult"
    /\ maxAttempts >= 1
    /\ Len(outcome[t].errors) = maxAttempts
    /\ \A i \in 1..Len(outcome[t].errors) :
          IsRequestException(outcome[t].errors[i].exception)

\* C24: when in get_drop_campaign_details the batched call of chunk j has
\* ended in an ErrorResult after maxAttempts attempts that failed with
\* errors of the transport, get_drop_campaign_details ends by raising the
\* RetryError of that call with these errors: chunk j's request is the
\* last one issued, and the results of the chunks before j are not
\* returned.
C24_ChunkFailureRaises ==
    (/\ op[1] = "get_drop_campaign_details"
     /\ TransportFailure(1)
     /\ pc[1] \in {"returned", "done"}) =>
        LET j == local[1].chunk
        IN  /\ Len(calls[1]) = j
            /\ Len(sent[1]) = maxAttempts
            /\ \A i \in 1..(j - 1) : calls[1][i].ended = "return"
            /\ Len(local[1].result) <= ChunkSize * (j - 1)
            /\ pc[1] = "returned" => ret[1] = NoRet /\ calls[1][j].ended = ""
            /\ pc[1] = "done" =>
                  /\ calls[1][j].ended = "raise"
                  /\ ret[1].kind = "raise"
                  /\ ret[1].exception = RetryError(opname[1], outcome[1].errors)

\* the second of three chunks fails three times; the 20 results of the
\* first chunk are lost and the third chunk is never asked for
C24_Witness ==
    /\ op[1] = "get_drop_campaign_details"
    /\ maxAttempts = 3
    /\ pc[1] = "done"
    /\ TransportFailure(1)
    /\ Len(ChunksOf(1)) = 3
    /\ local[1].chunk = 2
    /\ Len(calls[1]) = 2
    /\ Len(local[1].result) = 20
    /\ ret[1].kind = "raise"
    /\ ret[1].exception.cls = "RetryError"
    /\ Len(ret[1].exception.errors) = 3

C25_WitnessNoAttempt ==
    /\ maxAttempts = 0
    /\ pc[1] = "returned"
    /\ outcome[1] = ErrorResult(<<>>)
    /\ events[1] = <<>>

C25_WitnessNegative ==
    /\ maxAttempts < 0
    /\ pc[1] = "returned"
    /\ outcome[1] = ErrorResult(<<>>)

====
